---------------------------- MODULE Spec2Model ----------------------------
(***************************************************************************)
(* A state-machine model of the bytecode interpreter of luajs/moonshine:   *)
(* src/vm/src/Closure.js.  An activation (luajs.Closure) owns a register   *)
(* file, a program counter and the list of its locals captured as         *)
(* upvalues; the handlers of luajs.Closure.OPERATIONS are the actions.     *)
(*                                                                         *)
(* The JavaScript call stack is explicit (variable stack): a handler that  *)
(* applies a Lua function pushes a frame, and the part of the handler that *)
(* follows the application runs when that frame returns (mode "ret") or    *)
(* is skipped when it throws (mode "throw").                               *)
(***************************************************************************)
EXTENDS Integers, Sequences, FiniteSets, TLC

\* ------------------------------------------------------------------ bounds

\* Largest number of fetches one behaviour performs (caps loops).
MaxSteps == 40
\* Largest number of coroutine resumes the host performs in one behaviour.
MaxResumes == 2

\* ------------------------------------------------------------------ values

\* A Lua value is a tagged record; v is always an integer (a number, 0/1 for a
\* boolean, the index of a string, of a function object, of a host function).
Nil == [t |-> "nil", v |-> 0]
Num(n) == [t |-> "num", v |-> n]
Bool(b) == [t |-> "bool", v |-> IF b THEN 1 ELSE 0]
Str(s) == [t |-> "str", v |-> s]
Fn(f) == [t |-> "fn", v |-> f]
Tab(i) == [t |-> "tab", v |-> i]
\* The number NaN.
NaN == [t |-> "nan", v |-> 0]
Host(h) == [t |-> "host", v |-> h]

\* The strings of the model: v = 1 is "hello", 2 is "7", 3 is "".
SHello == Str(1)
SSeven == Str(2)
SEmpty == Str(3)

\* The host callables of the model (collaborators of the core): yield is
\* coroutine.yield, echo returns its arguments, throw raises a JavaScript
\* error, next is an iterator that counts its control variable down to nil.
HYield == Host(1)
HEcho == Host(2)
HThrow == Host(3)
HNext == Host(4)

\* A JavaScript return value: undefined, or an array of Lua values.
Undef == [def |-> FALSE, vals |-> <<>>]
Arr(s) == [def |-> TRUE, vals |-> s]

Min(a, b) == IF a < b THEN a ELSE b
Max(a, b) == IF a < b THEN b ELSE a

\* --------------------------------------------------------- register file
\* this._register is a JavaScript array: index 0 first, reading past the end
\* or a hole gives undefined (nil), writing past the end extends the array.

RegGet(r, i) == IF i >= 0 /\ i < Len(r) THEN r[i + 1] ELSE Nil

RegSet(r, i, x) ==
    [k \in 1..Max(Len(r), i + 1) |-> IF k = i + 1 THEN x ELSE RegGet(r, k - 1)]

\* delete this._register[i]: the slot becomes a hole, the length stays.
RegDelete(r, i) == IF i >= 0 /\ i < Len(r) THEN [r EXCEPT ![i + 1] = Nil] ELSE r

\* this._register.splice (n): drops every slot at index >= n.
RegSplice(r, n) == IF n < Len(r) THEN SubSeq(r, 1, n) ELSE r

\* R[a + i] = vals[i] for 0 <= i < n (vals[i] is undefined past its end).
RECURSIVE RegCopy(_, _, _, _)
RegCopy(r, a, vals, n) ==
    IF n <= 0 THEN r
    ELSE RegSet(RegCopy(r, a, vals, n - 1), a + n - 1,
                IF n <= Len(vals) THEN vals[n] ELSE Nil)

\* ------------------------------------------------------------ instructions

OP_MOVE == 0
OP_LOADK == 1
OP_LOADBOOL == 2
OP_LOADNIL == 3
OP_GETUPVAL == 4
OP_SETUPVAL == 8
OP_ADD == 12
OP_NOT == 19
OP_JMP == 22
OP_EQ == 23
OP_LT == 24
OP_LE == 25
OP_TEST == 26
OP_TESTSET == 27
OP_CALL == 28
OP_TAILCALL == 29
OP_RETURN == 30
OP_FORLOOP == 31
OP_FORPREP == 32
OP_TFORLOOP == 33
OP_CLOSE == 35
OP_CLOSURE == 36
OP_VARARG == 37

\* An instruction {op, A, B, C}; a wide operand (Bx, sBx) is passed as B and
\* C is then undefined: the only code that reads it (the splice of _run) takes
\* an undefined C as it takes C = 1 (not 0, and no i with i < C - 1).
Ins(op, a, b, c) == [op |-> op, A |-> a, B |-> b, C |-> c]
InsW(op, a, bx) == [op |-> op, A |-> a, B |-> bx, C |-> 1]

\* A function prototype (this._data): paramCount, is_vararg, the instructions,
\* the constants, the nested prototypes (functions, as prototype numbers of the
\* same program), linePositions and upvalues (the list of upvalue names, kept
\* as its length); sourceName is the prototype's number.
Proto(n, va, code, ks, fs) ==
    [paramCount |-> n, is_vararg |-> va, instructions |-> code,
     constants |-> ks, functions |-> fs,
     linePositions |-> [i \in 1..Len(code) |-> 10 + i], upvalues |-> 0]
\* The same with nups upvalues.
ProtoUp(nups, n, va, code, ks, fs) ==
    [Proto(n, va, code, ks, fs) EXCEPT !.upvalues = nups]

\* A table: its array part, its member n, its metatable (a table number, 0
\* for none) and, for a table used as a metatable, its members __add, __eq
\* and __le.
NoTable == [arr |-> << >>, n |-> Nil, metatable |-> 0, add |-> Nil, eq |-> Nil,
            le |-> Nil]

\* ---------------------------------------------------------------- programs
\* The inputs of the interpreter: a program is a list of prototypes (the first
\* is the entry function) and the argument vectors the host may call it with.

\* The values a resume supplies to a suspended coroutine, and that the direct
\* callee HRet(k) returns.
RetChoices == << <<>>, <<Num(9)>>, <<Num(9), Num(5)>> >>
HRet(k) == Host(10 + k)
IsHRet(x) == x.t = "host" /\ x.v > 10

\* function (y) local a, b, c = y (7, 8), ...; return ... end: the CALL at
\* pc 4 applies y with operand C = c while R[4] lies above its arguments.
Yielder(c) ==
    Proto(1, 0,
          << Ins(OP_MOVE, 1, 0, 0), InsW(OP_LOADK, 2, 0), InsW(OP_LOADK, 3, 1),
             InsW(OP_LOADK, 4, 2), Ins(OP_CALL, 1, 3, c),
             Ins(OP_RETURN, 1, 0, 0), Ins(OP_RETURN, 0, 1, 0) >>,
          << Num(7), Num(8), Num(1) >>, << >>)

\* function (y) return f (y) end, f the nested prototype number fn: the CALL
\* at pc 3 has operand C = c.
Wrapper(c, fn) ==
    Proto(1, 0,
          << InsW(OP_CLOSURE, 1, 0), Ins(OP_MOVE, 2, 0, 0), InsW(OP_LOADK, 3, 0),
             Ins(OP_CALL, 1, 2, c), Ins(OP_RETURN, 1, 0, 0),
             Ins(OP_RETURN, 0, 1, 0) >>,
          << Num(1) >>, << fn >>)

\* function (y) local a = y (7); return a, y (a) end: two calls of y in a row.
TwiceYielder ==
    Proto(1, 0,
          << Ins(OP_MOVE, 1, 0, 0), InsW(OP_LOADK, 2, 0), Ins(OP_CALL, 1, 2, 2),
             Ins(OP_MOVE, 2, 0, 0), Ins(OP_MOVE, 3, 1, 0), Ins(OP_CALL, 2, 2, 0),
             Ins(OP_RETURN, 1, 0, 0), Ins(OP_RETURN, 0, 1, 0) >>,
          << Num(7) >>, << >>)

\* The callee y of the programs above: a direct callee that returns
\* RetChoices[k], to be compared with coroutine.yield resumed with the same.
DirectArgs == { << HRet(k) >> : k \in 1..Len(RetChoices) }

\* A program: its prototypes, the argument vectors, and the function objects
\* and tables the host built before the call.
Program(protos, argsets, funcs0, tabs0) ==
    [protos |-> protos, args |-> argsets, funcs0 |-> funcs0, tabs0 |-> tabs0]

YieldProgram(c, cw, depth) ==
    Program(CASE depth = 0 -> << Yielder(c) >>
              [] depth = 1 -> << Wrapper(cw, 2), Yielder(c) >>
              [] OTHER -> << Wrapper(cw, 2), Wrapper(cw, 3), Yielder(c) >>,
            DirectArgs, << >>, << >>)

YieldPrograms ==
    [i \in 1..20 |->
        IF i <= 4 THEN YieldProgram(i - 1, 0, 0)
        ELSE YieldProgram((i - 5) % 4, 2 * (((i - 5) \div 4) % 2),
                          1 + ((i - 5) \div 8))]

\* function (v, w): local x = v; get, set and mid capture x; set (w); the
\* parent writes x = 3; get () is called while the parent is live; get, set
\* and the closure made by mid are returned.
SharingOuter ==
    Proto(2, 0,
          << Ins(OP_MOVE, 2, 0, 0),
             InsW(OP_CLOSURE, 3, 0), Ins(OP_MOVE, 0, 2, 0),
             InsW(OP_CLOSURE, 4, 1), Ins(OP_MOVE, 0, 2, 0),
             InsW(OP_CLOSURE, 5, 2), Ins(OP_MOVE, 0, 2, 0),
             Ins(OP_MOVE, 6, 4, 0), Ins(OP_MOVE, 7, 1, 0), Ins(OP_CALL, 6, 2, 1),
             Ins(OP_MOVE, 6, 5, 0), Ins(OP_CALL, 6, 1, 2), Ins(OP_MOVE, 5, 6, 0),
             InsW(OP_LOADK, 2, 0),
             Ins(OP_MOVE, 6, 3, 0), Ins(OP_CALL, 6, 1, 2),
             Ins(OP_RETURN, 3, 4, 0), Ins(OP_RETURN, 0, 1, 0) >>,
          << Num(3) >>, << 3, 4, 5 >>)

\* function () return x end, x the first upvalue.
Getter ==
    ProtoUp(1, 0, 0,
          << Ins(OP_GETUPVAL, 0, 0, 0), Ins(OP_RETURN, 0, 2, 0),
             Ins(OP_RETURN, 0, 1, 0) >>, << >>, << >>)
\* function (n) x = n end
Setter ==
    ProtoUp(1, 1, 0, << Ins(OP_SETUPVAL, 0, 0, 0), Ins(OP_RETURN, 0, 1, 0) >>,
            << >>, << >>)
\* function () return function () return x end end: the inner closure binds
\* x through the upvalue of this one; get is the prototype number of Getter.
Mid(get) ==
    ProtoUp(1, 0, 0,
          << InsW(OP_CLOSURE, 0, 0), Ins(OP_GETUPVAL, 0, 0, 0),
             Ins(OP_RETURN, 0, 2, 0), Ins(OP_RETURN, 0, 1, 0) >>,
          << >>, << get >>)

\* function (v, w) local g, s, d = outer (v, w); s (5); return g (), d () end:
\* the closures are used after the activation that made them returned.
SharingDriver ==
    Proto(2, 0,
          << InsW(OP_CLOSURE, 2, 0), Ins(OP_MOVE, 3, 0, 0), Ins(OP_MOVE, 4, 1, 0),
             Ins(OP_CALL, 2, 3, 4),
             Ins(OP_MOVE, 5, 3, 0), InsW(OP_LOADK, 6, 0), Ins(OP_CALL, 5, 2, 1),
             Ins(OP_MOVE, 5, 2, 0), Ins(OP_CALL, 5, 1, 2),
             Ins(OP_MOVE, 6, 4, 0), Ins(OP_CALL, 6, 1, 2),
             Ins(OP_RETURN, 5, 3, 0), Ins(OP_RETURN, 0, 1, 0) >>,
          << Num(5) >>, << 2 >>)

\* function (): local x = 1, captured by g1; the block ends (CLOSE 2); a new
\* local x = 2 in the same register is captured by g2 and s2; the parent
\* writes x = 3; g1, g2 and s2 are returned.
RecloseOuter ==
    Proto(0, 0,
          << InsW(OP_LOADK, 2, 0),
             InsW(OP_CLOSURE, 3, 0), Ins(OP_MOVE, 0, 2, 0),
             Ins(OP_CLOSE, 2, 0, 0),
             InsW(OP_LOADK, 2, 1),
             InsW(OP_CLOSURE, 4, 0), Ins(OP_MOVE, 0, 2, 0),
             InsW(OP_CLOSURE, 5, 1), Ins(OP_MOVE, 0, 2, 0),
             InsW(OP_LOADK, 2, 2),
             Ins(OP_RETURN, 3, 4, 0), Ins(OP_RETURN, 0, 1, 0) >>,
          << Num(1), Num(2), Num(3) >>, << 3, 4 >>)

\* A prototype that captures its local and whose instruction list ends
\* without RETURN.
FallOff ==
    Proto(0, 0,
          << InsW(OP_LOADK, 0, 0), InsW(OP_CLOSURE, 1, 0),
             Ins(OP_MOVE, 0, 0, 0) >>,
          << Num(1) >>, << 2 >>)

\* CLOSURE capturing register 1 before anything wrote it.
Unwritten ==
    Proto(0, 0,
          << InsW(OP_CLOSURE, 0, 0), Ins(OP_MOVE, 0, 1, 0),
             Ins(OP_RETURN, 0, 2, 0), Ins(OP_RETURN, 0, 1, 0) >>,
          << >>, << 2 >>)

\* function (f, ...) local x = 1; g captures x; return f (...) with the CALL's
\* C = 0: the results are spliced at R[0] and the register file ends there.
Truncating ==
    Proto(1, 0,
          << InsW(OP_LOADK, 2, 0), InsW(OP_CLOSURE, 3, 0), Ins(OP_MOVE, 0, 2, 0),
             Ins(OP_CALL, 0, 1, 0), Ins(OP_RETURN, 0, 0, 0),
             Ins(OP_RETURN, 0, 1, 0) >>,
          << Num(1) >>, << 2 >>)

\* function (...) local x = 1; g captures x; local a, b = ...; ... end with
\* is_vararg = va and the VARARG's operand B = b.
Varargs(va, b) ==
    Proto(1, va,
          << InsW(OP_LOADK, 2, 0), InsW(OP_CLOSURE, 3, 0), Ins(OP_MOVE, 0, 2, 0),
             Ins(OP_VARARG, 4, b, 0), Ins(OP_RETURN, 2, 0, 0),
             Ins(OP_RETURN, 0, 1, 0) >>,
          << Num(1) >>, << 2 >>)

\* function (it, s, c) for v in it, s, c do acc = v end; return acc end; with
\* lua the iterator is the closure of prototype 2, and with tail the function
\* ends in a tail call of acc.
TFor(lua, tail) ==
    Proto(3, 0,
          << IF lua THEN InsW(OP_CLOSURE, 3, 0) ELSE Ins(OP_MOVE, 3, 0, 0),
             Ins(OP_MOVE, 4, 1, 0), Ins(OP_MOVE, 5, 2, 0),
             InsW(OP_JMP, 0, 1),
             Ins(OP_MOVE, 2, 6, 0),
             Ins(OP_TFORLOOP, 3, 0, 1),
             InsW(OP_JMP, 0, 0 - 3),
             IF tail THEN Ins(OP_TAILCALL, 2, 1, 0) ELSE Ins(OP_RETURN, 2, 2, 0),
             Ins(OP_RETURN, 2, 0, 0), Ins(OP_RETURN, 0, 1, 0) >>,
          << >>, << 2 >>)

\* function (s, c) return s (s, c) end: a Lua iterator that calls its state.
IterCall ==
    Proto(2, 0,
          << Ins(OP_MOVE, 2, 0, 0), Ins(OP_MOVE, 3, 0, 0), Ins(OP_MOVE, 4, 1, 0),
             Ins(OP_CALL, 2, 3, 0), Ins(OP_RETURN, 2, 0, 0),
             Ins(OP_RETURN, 0, 1, 0) >>,
          << >>, << >>)

\* function (init, limit, step) local acc = 0
\*   for i = init, limit, step do acc = acc + i end; return acc end
NumericFor ==
    Proto(3, 0,
          << Ins(OP_MOVE, 3, 0, 0), Ins(OP_MOVE, 4, 1, 0), Ins(OP_MOVE, 5, 2, 0),
             InsW(OP_LOADK, 7, 0),
             InsW(OP_FORPREP, 3, 1),
             Ins(OP_ADD, 7, 7, 6),
             InsW(OP_FORLOOP, 3, 0 - 2),
             Ins(OP_RETURN, 7, 2, 0), Ins(OP_RETURN, 0, 1, 0) >>,
          << Num(0) >>, << >>)

\* function (b, c): one conditional of each kind (EQ, LT, LE against the
\* constant 2, TEST, LOADBOOL with skip, LOADNIL, TESTSET), each followed by
\* the jump over its then-part, as a compiler lays them out.
Compare ==
    Proto(2, 0,
          << Ins(OP_EQ, 0, 0, 1), InsW(OP_JMP, 0, 1), InsW(OP_LOADK, 2, 0),
             Ins(OP_LT, 1, 0, 1), InsW(OP_JMP, 0, 1), InsW(OP_LOADK, 3, 0),
             Ins(OP_LE, 1, 0, 257), InsW(OP_JMP, 0, 1), InsW(OP_LOADK, 4, 0),
             Ins(OP_TEST, 0, 0, 0), InsW(OP_JMP, 0, 1), Ins(OP_LOADBOOL, 5, 1, 1),
             Ins(OP_LOADNIL, 6, 7, 0),
             Ins(OP_TESTSET, 6, 1, 1), InsW(OP_JMP, 0, 1),
             Ins(OP_LOADBOOL, 5, 0, 0),
             Ins(OP_RETURN, 2, 0, 0), Ins(OP_RETURN, 0, 1, 0) >>,
          << Num(1), Num(2) >>, << >>)

\* function (b, c) return b + c end
Adder ==
    Proto(2, 0,
          << Ins(OP_ADD, 2, 0, 1), Ins(OP_RETURN, 2, 2, 0),
             Ins(OP_RETURN, 0, 1, 0) >>, << >>, << >>)

\* function (b, c) return c () end: a Lua metamethod that calls its second
\* operand.
MetaCall ==
    Proto(2, 0,
          << Ins(OP_MOVE, 2, 1, 0), Ins(OP_CALL, 2, 1, 0), Ins(OP_RETURN, 2, 0, 0),
             Ins(OP_RETURN, 0, 1, 0) >>, << >>, << >>)

\* The tables of the metamethod programs: tables 1 and 2 have the metatables
\* 3 and 4; the members of 3 are host functions, those of 4 the Lua function
\* object 1.
MetaTabs ==
    << [NoTable EXCEPT !.metatable = 3], [NoTable EXCEPT !.metatable = 4],
       [NoTable EXCEPT !.add = HRet(2), !.eq = HRet(2), !.le = HRet(2)],
       [NoTable EXCEPT !.add = Fn(1), !.eq = Fn(1), !.le = Fn(1)] >>
MetaFuncs == << [proto |-> 2, ups |-> << >>] >>
MetaArgs ==
    { << Tab(1), Tab(2) >>, << Tab(2), Tab(1) >>, << Tab(2), HEcho >>,
      << Tab(2), HYield >>, << Tab(2), Num(1) >>, << Tab(1), Num(1) >> }
PlainArgs ==
    { << Num(1), Num(2) >>, << Num(2), Num(1) >>, << Num(1), Num(1) >>,
      << SSeven, Num(7) >>, << SEmpty, Num(0) >>, << Nil, Nil >>,
      << SHello, Num(1) >>, << Bool(FALSE), SHello >> }

\* function (x) return x () end and function (x) return x + 1 end, called
\* through a wrapper: the programs whose errors cross two activations.
Caller ==
    Proto(1, 0,
          << Ins(OP_MOVE, 1, 0, 0), Ins(OP_CALL, 1, 1, 0), Ins(OP_RETURN, 1, 0, 0),
             Ins(OP_RETURN, 0, 1, 0) >>, << >>, << >>)
Increment ==
    Proto(1, 0,
          << Ins(OP_ADD, 1, 0, 256), Ins(OP_RETURN, 1, 2, 0),
             Ins(OP_RETURN, 0, 1, 0) >>, << Num(1) >>, << >>)
\* function (y) local a = y (); return a + "hello" end: the error is raised
\* after the call of y returned (or was resumed).
YieldThenErr ==
    Proto(1, 0,
          << Ins(OP_MOVE, 1, 0, 0), Ins(OP_CALL, 1, 1, 2), Ins(OP_ADD, 2, 1, 256),
             Ins(OP_RETURN, 2, 2, 0), Ins(OP_RETURN, 0, 1, 0) >>,
          << SHello >>, << >>)

\* function () end
Plain == Proto(0, 0, << Ins(OP_RETURN, 0, 1, 0) >>, << >>, << >>)

\* function (p, ...) do local a, b, c = 1, 1, 1 end; return ... end: the
\* registers 1..3 were used before VARARG (1, b) and the RETURN that takes what
\* it left (with b = 0, everything up to the end of the register file).
VarargTail(b) ==
    Proto(1, 2,
          << InsW(OP_LOADK, 1, 0), InsW(OP_LOADK, 2, 0), InsW(OP_LOADK, 3, 0),
             Ins(OP_VARARG, 1, b, 0), Ins(OP_RETURN, 1, b, 0),
             Ins(OP_RETURN, 0, 1, 0) >>,
          << Num(1) >>, << >>)

\* function (x) return x () end, compiled with TAILCALL.
TailCaller ==
    Proto(1, 0,
          << Ins(OP_MOVE, 1, 0, 0), Ins(OP_TAILCALL, 1, 1, 0),
             Ins(OP_RETURN, 1, 0, 0), Ins(OP_RETURN, 0, 1, 0) >>,
          << >>, << >>)

\* function (a) local f = function () end; a = ...; return a end: the nested
\* prototype has no upvalue, and the instruction after CLOSURE is the ordinary
\* MOVE 0 1 (a = f) or GETUPVAL 0 0 (a = an upvalue).
Assigning(op) ==
    Proto(1, 0,
          << InsW(OP_CLOSURE, 1, 0), Ins(op, 0, IF op = OP_MOVE THEN 1 ELSE 0, 0),
             Ins(OP_RETURN, 0, 2, 0), Ins(OP_RETURN, 0, 1, 0) >>,
          << >>, << 2 >>)

\* function (v) return not v, v or 1, v and 1, (v and 1 or nil) end, the last
\* one compiled with TEST.
Truthiness ==
    Proto(1, 0,
          << Ins(OP_NOT, 1, 0, 0),
             Ins(OP_TESTSET, 2, 0, 1), InsW(OP_JMP, 0, 1), InsW(OP_LOADK, 2, 0),
             Ins(OP_TESTSET, 3, 0, 0), InsW(OP_JMP, 0, 1), InsW(OP_LOADK, 3, 0),
             Ins(OP_TEST, 0, 0, 0), InsW(OP_JMP, 0, 1), InsW(OP_LOADK, 4, 0),
             Ins(OP_RETURN, 1, 5, 0), Ins(OP_RETURN, 0, 1, 0) >>,
          << Num(1) >>, << >>)

\* function () local x, y, z = 1, 2, 3; three closures capture them in the
\* order ord; the block of the locals from register a on ends (CLOSE a); the
\* parent writes register 1; the closures are returned.
CaptureOrders == << << 3, 1, 2 >>, << 1, 2, 3 >>, << 2, 3, 1 >> >>
CloseOrder(a, ord) ==
    Proto(0, 0,
          << InsW(OP_LOADK, 1, 0), InsW(OP_LOADK, 2, 1), InsW(OP_LOADK, 3, 2),
             InsW(OP_CLOSURE, 4, 0), Ins(OP_MOVE, 0, CaptureOrders[ord][1], 0),
             InsW(OP_CLOSURE, 5, 0), Ins(OP_MOVE, 0, CaptureOrders[ord][2], 0),
             InsW(OP_CLOSURE, 6, 0), Ins(OP_MOVE, 0, CaptureOrders[ord][3], 0),
             Ins(OP_CLOSE, a, 0, 0),
             InsW(OP_LOADK, 1, 3),
             Ins(OP_RETURN, 4, 4, 0), Ins(OP_RETURN, 0, 1, 0) >>,
          << Num(1), Num(2), Num(3), Num(4) >>, << 2 >>)
CloseFrom == << 0, 2, 3, 4 >>
ClosePrograms ==
    [i \in 1..(Len(CloseFrom) * Len(CaptureOrders)) |->
        Program(<< CloseOrder(CloseFrom[((i - 1) % Len(CloseFrom)) + 1],
                              ((i - 1) \div Len(CloseFrom)) + 1), Getter >>,
                { << >> }, << >>, << >>)]

MorePrograms ==
    << Program(<< Wrapper(0, 2), TwiceYielder >>, DirectArgs, << >>, << >>),
       Program(<< VarargTail(0) >>,
               { << Num(1) >>, << Num(1), Num(2) >>,
                 << Num(1), Num(2), Num(3), Num(4), Num(5) >> }, << >>, << >>),
       Program(<< VarargTail(3) >>,
               { << Num(1) >>, << Num(1), Num(2) >>,
                 << Num(1), Num(2), Num(3), Num(4), Num(5) >> }, << >>, << >>),
       Program(<< TailCaller, Plain >>,
               { << HEcho >>, << Num(1) >>, << HYield >>, << Fn(1) >> },
               << [proto |-> 2, ups |-> << >>] >>, << >>),
       Program(<< Assigning(OP_MOVE), Plain >>, { << Num(1) >> }, << >>, << >>),
       Program(<< Assigning(OP_GETUPVAL), Plain >>, { << Num(1) >> }, << >>,
               << >>),
       Program(<< Truthiness >>,
               { << Num(0) >>, << SEmpty >>, << Nil >>, << Bool(FALSE) >>,
                 << Bool(TRUE) >>, << Num(1) >>, << SHello >>, << HEcho >> },
               << >>, << >>) >>

OtherPrograms ==
    << Program(<< TwiceYielder >>, DirectArgs, << >>, << >>),
       Program(<< Wrapper(0, 2), YieldThenErr >>, DirectArgs, << >>, << >>),
       Program(<< SharingDriver, SharingOuter, Getter, Setter, Mid(3) >>,
               { << Num(1), Num(2) >>, << Num(1), Nil >> }, << >>, << >>),
       Program(<< SharingDriver, RecloseOuter, Getter, Setter >>,
               { << Num(1), Num(2) >> }, << >>, << >>),
       Program(<< FallOff, Getter >>, { << >> }, << >>, << >>),
       Program(<< Unwritten, Getter >>, { << >> }, << >>, << >>),
       Program(<< Truncating, Getter >>,
               { << HEcho >>, << HYield >>, << HRet(3) >> }, << >>, << >>),
       Program(<< Varargs(0, 0), Getter >>,
               { << >>, << Num(1), Num(2), Num(3) >> }, << >>, << >>),
       Program(<< Varargs(7, 3), Getter >>,
               { << >>, << Num(1) >>, << Num(1), Num(2), Num(3) >> }, << >>,
               << >>),
       Program(<< TFor(FALSE, FALSE) >>,
               { << HNext, Nil, Num(3) >>, << HNext, Nil, Num(1) >>,
                 << HYield, Nil, Num(3) >>, << HThrow, Nil, Nil >>,
                 << Num(1), Nil, Nil >>, << HEcho, SSeven, Nil >>,
                 << HEcho, Nil, SSeven >> }, << >>, << >>),
       Program(<< TFor(TRUE, FALSE), IterCall >>,
               { << Nil, HNext, Num(2) >>, << Nil, HYield, Num(2) >> },
               << >>, << >>),
       Program(<< TFor(TRUE, TRUE), IterCall >>,
               { << Nil, HNext, Num(1) >>, << Nil, HYield, Num(2) >> },
               << >>, << >>),
       Program(<< NumericFor >>,
               { << Num(1), Num(3), Num(1) >>, << Num(3), Num(1), Num(0 - 1) >>,
                 << Num(1), Num(0), Num(1) >>, << Num(1), Num(3), Num(0) >>,
                 << Num(1), Num(5), Num(2) >>, << Num(5), Num(0), Num(0 - 2) >>,
                 << Num(2), Num(2), Num(1) >>, << Num(1), Num(3), Num(0 - 1) >>,
                 << Num(0 - 4), Num(4), Num(3) >>, << Num(1), Num(8), Num(1) >>,
                 << Num(3), Num(1), Num(0) >>, << Num(1), Num(3), Nil >> },
               << >>, << >>),
       Program(<< Compare, MetaCall >>, MetaArgs \cup PlainArgs, MetaFuncs,
               MetaTabs),
       Program(<< Adder, MetaCall >>, MetaArgs \cup PlainArgs, MetaFuncs,
               MetaTabs),
       Program(<< Wrapper(0, 2), Caller >>,
               { << HThrow >>, << Num(1) >>, << HEcho >>, << HYield >> },
               << >>, << >>),
       Program(<< Wrapper(0, 2), Increment >>,
               { << SHello >>, << Num(1) >>, << SSeven >> }, << >>, << >>) >>

Programs == YieldPrograms \o OtherPrograms \o MorePrograms \o ClosePrograms

\* ------------------------------------------------------------------- state

VARIABLES
    prog,            \* the program the host runs (one of Programs)
    args,            \* the arguments the host calls its entry function with
    acts,            \* the activations (luajs.Closure objects), by number
    funcs,           \* the function values (luajs.Function objects), by number
    cells,           \* the upvalue objects created by CLOSURE, by number
    tabs,            \* the tables (luajs.Table objects), by number
    stack,           \* the JavaScript call stack: the activations being run
    mode,            \* idle | run | ret | throw
    retv,            \* mode ret: the value the popped frame returned
    err,             \* mode throw: the exception in flight
    coRunning,       \* luajs.Coroutine._running is set
    coStatus,        \* luajs.Coroutine._running.status
    coResumeStack,   \* luajs.Coroutine._running._resumeStack
    coYieldVars,     \* luajs.Coroutine._running._yieldVars
    coEntry,         \* luajs.Coroutine._running._func._instance
    dbgStatus,       \* luajs.debug.status
    dbgResumeStack,  \* luajs.debug.resumeStack
    result,          \* what the host got back from its last call
    steps,           \* instructions fetched so far (bounded by MaxSteps)
    resumes,         \* resumes made so far (bounded by MaxResumes)
    trace,           \* history: the <<activation, pc>> of every first fetch
    ref              \* the outcome of the run with the direct callee, if any

vars == << prog, args, acts, funcs, cells, tabs, stack, mode, retv, err, coRunning,
           coStatus, coResumeStack, coYieldVars, coEntry, dbgStatus,
           dbgResumeStack, result, steps, resumes, trace, ref >>

NoErr == [lua |-> FALSE, msg |-> "", luaStack |-> << >>]
NoResult == [kind |-> "none", ret |-> [def |-> FALSE, vals |-> << >>], err |-> NoErr]
NoRef == [set |-> FALSE, acts |-> << >>, funcs |-> << >>, cells |-> << >>,
          tabs |-> << >>, result |-> NoResult, trace |-> << >>, k |-> 0]

P(p) == prog.protos[p]
Code(a) == P(a.proto).instructions
HasInstr(a, pc) == pc >= 0 /\ pc < Len(Code(a))
InstrAt(a, pc) == Code(a)[pc + 1]

Top == stack[Len(stack)]
Cur == Top.act
CurAct == acts[Cur]
Front(s) == SubSeq(s, 1, Len(s) - 1)

\* this._getConstant (index): a null constant reads as undefined.
GetConstant(a, index) ==
    IF index >= 0 /\ index < Len(P(a.proto).constants)
    THEN P(a.proto).constants[index + 1] ELSE Nil

Init ==
    /\ prog \in { Programs[i] : i \in DOMAIN Programs }
    /\ args \in prog.args
    /\ acts = << >> /\ cells = << >>
    /\ funcs = prog.funcs0 /\ tabs = prog.tabs0
    /\ stack = << >> /\ mode = "idle" /\ retv = Undef /\ err = NoErr
    /\ coRunning = FALSE /\ coStatus = "suspended" /\ coResumeStack = << >>
    /\ coYieldVars = << >> /\ coEntry = 0
    /\ dbgStatus = "running" /\ dbgResumeStack = << >>
    /\ result = NoResult /\ steps = 0 /\ resumes = 0
    /\ trace = << >> /\ ref = NoRef

\* -------------------------------------------------------------- the driver

HostError(m) == [lua |-> FALSE, msg |-> m, luaStack |-> << >>]
LuaError(m) == [lua |-> TRUE, msg |-> m, luaStack |-> << >>]

\* luajs.Closure (the constructor) and the head of execute (args): pc = 0,
\* _params = args, _register = the first paramCount arguments and, for a
\* prototype with is_vararg == 7, the table of the remaining ones.  caller is
\* a history field (the code has none): the activation whose handler applied
\* the function, 0 for the host.
ExecuteAct(p, ups, as) ==
    LET n == Min(P(p).paramCount, Len(as))
        regs == SubSeq(as, 1, n)
    IN [proto |-> p, pc |-> 0, params |-> as,
        register |-> IF P(p).is_vararg = 7
                     THEN Append(regs, Tab(Len(tabs) + 1)) ELSE regs,
        localsUsedAsUpvalues |-> << >>, upvalues |-> ups,
        terminated |-> FALSE,
        caller |-> IF stack = << >> THEN 0 ELSE stack[Len(stack)].act]

ExecuteTabs(p, as) ==
    LET n == Min(P(p).paramCount, Len(as))
        rest == SubSeq(as, n + 1, Len(as))
    IN IF P(p).is_vararg = 7
       THEN Append(tabs, [NoTable EXCEPT !.arr = rest, !.n = Num(Len(rest))])
       ELSE tabs

\* A variant of the result-splicing of CALL that takes every returned value
\* whatever C is.
CallSpliceAll(r, a, c, retvals) ==
    RegSplice(RegCopy(r, a, retvals, Len(retvals)), a + Len(retvals))

\* The result-splicing of CALL: with C = 0 every returned value goes to
\* R[A..] and the register file ends after them, else C - 1 values go to
\* R[A..A+C-2].
CallSplice(r, a, c, retvals) ==
    IF c = 0
    THEN RegSplice(RegCopy(r, a, retvals, Len(retvals)), a + Len(retvals))
    ELSE RegCopy(r, a, retvals, c - 1)

\* A variant of the splice of _run without the truncation of the register file.
RunSpliceNoTruncate(r, a, c, yieldVars) ==
    RegCopy(r, a, yieldVars, IF c = 0 THEN Len(yieldVars) ELSE c - 1)

\* The same splice as _run writes it for the yield vector, on the instruction
\* at pc - 1.
RunSplice(r, a, c, yieldVars) ==
    IF c = 0
    THEN RegSplice(RegCopy(r, a, yieldVars, Len(yieldVars)), a + Len(yieldVars))
    ELSE RegCopy(r, a, yieldVars, c - 1)

\* A variant of the head of _run in which the activation that gets the yield
\* vector steps its pc back to the CALL instead of splicing the vector itself.
RunStartRewind(a, run, cst, crs, yv, dst, drs) ==
    LET a0 == [a EXCEPT !.terminated = FALSE]
        same == [act |-> a0, cst |-> cst, dst |-> dst, threw |-> FALSE]
    IN IF dst # "resuming" /\ run /\ cst = "resuming"
       THEN IF Len(crs) > 0
            THEN [same EXCEPT !.act = [a0 EXCEPT !.pc = @ - 1]]
            ELSE [same EXCEPT !.cst = "running",
                              !.act = [a0 EXCEPT !.pc = @ - 1]]
       ELSE same

\* The head of _run for activation record a, with luajs.Coroutine._running set
\* or not (run), its status cst and resume stack crs, the debugger's status
\* dst and resume stack drs: the new record, the two statuses, and whether
\* reading the instruction at pc - 1 threw.
RunStart(a, run, cst, crs, yv, dst, drs) ==
    LET a0 == [a EXCEPT !.terminated = FALSE]
        same == [act |-> a0, cst |-> cst, dst |-> dst, threw |-> FALSE]
    IN IF dst = "resuming"
       THEN IF Len(drs) > 0
            THEN [same EXCEPT !.act = [a0 EXCEPT !.pc = @ - 1]]
            ELSE [same EXCEPT !.dst = "running"]
       ELSE IF run /\ cst = "resuming"
       THEN IF Len(crs) > 0
            THEN [same EXCEPT !.act = [a0 EXCEPT !.pc = @ - 1]]
            ELSE IF HasInstr(a0, a0.pc - 1)
                 THEN LET i == InstrAt(a0, a0.pc - 1)
                      IN [same EXCEPT
                            !.cst = "running",
                            !.act = [a0 EXCEPT !.register =
                                        RunSplice(@, i.A, i.C, yv)]]
                 ELSE [same EXCEPT !.cst = "running", !.threw = TRUE]
       ELSE same

\* A frame for activation id of table a2 is pushed and its _run begins; exec
\* tells whether execute (and so its catch) is on the JavaScript stack.
Enter(a2, id, exec, run, cst, crs, yv, dst, drs) ==
    LET st == RunStart(a2[id], run, cst, crs, yv, dst, drs)
    IN /\ acts' = [a2 EXCEPT ![id] = st.act]
       /\ stack' = Append(stack, [act |-> id, exec |-> exec])
       /\ coRunning' = run
       /\ coStatus' = st.cst
       /\ dbgStatus' = st.dst
       /\ coResumeStack' = crs
       /\ coYieldVars' = yv
       /\ dbgResumeStack' = drs
       /\ mode' = IF st.threw THEN "throw" ELSE "run"
       /\ err' = IF st.threw THEN HostError("TypeError") ELSE err
       /\ retv' = Undef

\* The running _run returns rv to the frame below.
Leave(a2, rv) ==
    /\ acts' = a2
    /\ stack' = Front(stack)
    /\ mode' = "ret"
    /\ retv' = rv

\* A variant of the end of _run's loop that puts the activation in front of
\* the resume stack instead of at its end.
RunCheckPushFront(a2, retval, cst, yv, dst) ==
    /\ err' = err
    /\ coYieldVars' = yv
    /\ dbgStatus' = dst
    /\ dbgResumeStack' = dbgResumeStack
    /\ IF coRunning /\ cst = "suspending"
       THEN /\ coResumeStack' = << Cur >> \o coResumeStack
            /\ IF coEntry = Cur
               THEN /\ coStatus' = "suspended"
                    /\ coRunning' = FALSE
                    /\ Leave(a2, Arr(yv))
               ELSE /\ coStatus' = cst
                    /\ coRunning' = coRunning
                    /\ Leave(a2, Undef)
       ELSE /\ coStatus' = cst
            /\ coRunning' = coRunning
            /\ coResumeStack' = coResumeStack
            /\ IF retval.def
               THEN Leave([a2 EXCEPT ![Cur].terminated = TRUE], retval)
               ELSE /\ acts' = a2
                    /\ mode' = "run"
                    /\ UNCHANGED << stack, retv >>

\* What _run does after _executeInstruction returned retval, the handler
\* having left the table a2 and the statuses cst and dst.
RunCheck(a2, retval, cst, yv, dst) ==
    /\ err' = err
    /\ coYieldVars' = yv
    /\ dbgStatus' = dst
    /\ IF coRunning /\ cst = "suspending"
       THEN /\ coResumeStack' = Append(coResumeStack, Cur)
            /\ dbgResumeStack' = dbgResumeStack
            /\ IF coEntry = Cur
               THEN /\ coStatus' = "suspended"
                    /\ coRunning' = FALSE
                    /\ Leave(a2, Arr(yv))
               ELSE /\ coStatus' = cst
                    /\ coRunning' = coRunning
                    /\ Leave(a2, Undef)
       ELSE /\ coStatus' = cst
            /\ coRunning' = coRunning
            /\ coResumeStack' = coResumeStack
            /\ IF dst = "suspending" /\ ~retval.def
               THEN /\ dbgResumeStack' = Append(dbgResumeStack, Cur)
                    /\ Leave(a2, retval)
               ELSE /\ dbgResumeStack' = dbgResumeStack
                    /\ IF retval.def
                       THEN Leave([a2 EXCEPT ![Cur].terminated = TRUE], retval)
                       ELSE /\ acts' = a2
                            /\ mode' = "run"
                            /\ UNCHANGED << stack, retv >>

\* The handler throws e, a callable it applied having left the coroutine's
\* status cst and yield vector yv: the exception leaves _run of the running
\* frame.
ThrowAfter(a2, e, cst, yv) ==
    /\ acts' = a2
    /\ mode' = "throw"
    /\ err' = e
    /\ coStatus' = cst
    /\ coYieldVars' = yv
    /\ UNCHANGED << stack, retv, coRunning, coResumeStack, dbgStatus,
                    dbgResumeStack >>

Throw(a2, e) == ThrowAfter(a2, e, coStatus, coYieldVars)

\* --------------------------------------------------------- upvalue objects
\* A cell made for a captured local (MOVE pseudo-instruction) has deleg = 0:
\* while open it reads and writes register reg of activation act, once closed
\* its own value.  A cell made for a GETUPVAL pseudo-instruction forwards to
\* the cell deleg of the enclosing activation.

RECURSIVE UpTarget(_, _)
UpTarget(cs, c) == IF cs[c].deleg # 0 THEN UpTarget(cs, cs[c].deleg) ELSE c

\* upvalue.getValue ()
UpGetValue(a2, cs, c) ==
    LET u == cs[UpTarget(cs, c)]
    IN IF u.open THEN RegGet(a2[u.act].register, u.reg) ELSE u.value

\* upvalue.setValue (val): the activations and the cells afterwards.
UpSetValue(a2, cs, c, val) ==
    LET t == UpTarget(cs, c)
        u == cs[t]
    IN IF u.open
       THEN [acts |-> [a2 EXCEPT ![u.act].register = RegSet(@, u.reg, val)],
             cells |-> cs]
       ELSE [acts |-> a2, cells |-> [cs EXCEPT ![t].value = val]]

\* ------------------------------------------------------------ the handlers

Resuming == dbgStatus = "resuming" \/ (coRunning /\ coStatus = "resuming")

\* The loop of _run fetches the instruction at pc and increments pc.
Ready == mode = "run" /\ steps < MaxSteps /\ HasInstr(CurAct, CurAct.pc)
I == InstrAt(CurAct, CurAct.pc)
Fetched ==
    /\ steps' = steps + 1
    /\ trace' = IF Resuming THEN trace ELSE Append(trace, << Cur, CurAct.pc >>)
Stepped == [acts EXCEPT ![Cur].pc = @ + 1]

\* The handler returned nothing, leaving the table a2.
Continue(a2) == RunCheck(a2, Undef, coStatus, coYieldVars, dbgStatus)
\* The handler only wrote the registers of its activation.
Wrote(r2) == Continue([Stepped EXCEPT ![Cur].register = r2])

fixed == << prog, args, ref, result, resumes, coEntry >>
heap == << funcs, cells, tabs >>

Move ==
    /\ Ready /\ I.op = OP_MOVE /\ Fetched
    /\ Wrote(RegSet(CurAct.register, I.A, RegGet(CurAct.register, I.B)))
    /\ UNCHANGED << fixed, heap >>

Loadk ==
    /\ Ready /\ I.op = OP_LOADK /\ Fetched
    /\ Wrote(RegSet(CurAct.register, I.A, GetConstant(CurAct, I.B)))
    /\ UNCHANGED << fixed, heap >>

Loadbool ==
    /\ Ready /\ I.op = OP_LOADBOOL /\ Fetched
    /\ Continue([Stepped EXCEPT
                    ![Cur].register = RegSet(@, I.A, Bool(I.B # 0)),
                    ![Cur].pc = IF I.C # 0 THEN @ + 1 ELSE @])
    /\ UNCHANGED << fixed, heap >>

RECURSIVE LoadnilLoop(_, _, _)
LoadnilLoop(r, i, b) == IF i > b THEN r ELSE LoadnilLoop(RegSet(r, i, Nil), i + 1, b)

Loadnil ==
    /\ Ready /\ I.op = OP_LOADNIL /\ Fetched
    /\ Wrote(LoadnilLoop(CurAct.register, I.A, I.B))
    /\ UNCHANGED << fixed, heap >>

Getupval ==
    /\ Ready /\ I.op = OP_GETUPVAL /\ Fetched
    /\ IF I.B + 1 \in DOMAIN CurAct.upvalues
       THEN Wrote(RegSet(CurAct.register, I.A,
                         UpGetValue(acts, cells, CurAct.upvalues[I.B + 1])))
       ELSE Throw(Stepped, HostError("TypeError"))
    /\ UNCHANGED << fixed, heap >>

Setupval ==
    /\ Ready /\ I.op = OP_SETUPVAL /\ Fetched
    /\ IF I.B + 1 \in DOMAIN CurAct.upvalues
       THEN LET w == UpSetValue(Stepped, cells, CurAct.upvalues[I.B + 1],
                                RegGet(CurAct.register, I.A))
            IN Continue(w.acts) /\ cells' = w.cells
       ELSE Throw(Stepped, HostError("TypeError")) /\ cells' = cells
    /\ UNCHANGED << fixed, funcs, tabs >>

\* The closing loop of return_: every entry of _localsUsedAsUpvalues, in list
\* order, has its cell closed on the register's value and its slot deleted.
RECURSIVE ReturnClose(_, _, _)
ReturnClose(ls, r, cs) ==
    IF ls = << >> THEN [register |-> r, cells |-> cs]
    ELSE LET l == Head(ls)
         IN ReturnClose(Tail(ls), RegDelete(r, l.registerIndex),
                        [cs EXCEPT ![l.upvalue].value = RegGet(r, l.registerIndex),
                                   ![l.upvalue].open = FALSE])

\* The values return_ (a, b) returns.
ReturnVals(r, a, b) ==
    IF b = 0 THEN [k \in 1..Max(0, Len(r) - a) |-> r[a + k]]
    ELSE [k \in 1..(b - 1) |-> RegGet(r, a + k - 1)]

Return ==
    /\ Ready /\ I.op = OP_RETURN /\ Fetched
    /\ LET c == ReturnClose(CurAct.localsUsedAsUpvalues, CurAct.register, cells)
       IN /\ cells' = c.cells
          /\ RunCheck([Stepped EXCEPT ![Cur].register = c.register,
                                      ![Cur].localsUsedAsUpvalues = << >>],
                      Arr(ReturnVals(CurAct.register, I.A, I.B)),
                      coStatus, coYieldVars, dbgStatus)
    /\ UNCHANGED << fixed, funcs, tabs >>

\* The arguments call (a, b, c) collects.
CallArgs(r, a, b) ==
    IF b = 0 THEN [k \in 1..Max(0, Len(r) - a - 1) |-> r[a + 1 + k]]
    ELSE [k \in 1..(b - 1) |-> RegGet(r, a + k)]

\* A host callable applied to the arguments as: whether it threw, what it
\* returned, and the coroutine's status and yield vector afterwards.
HostApply(h, as) ==
    LET plain == [threw |-> FALSE, lua |-> FALSE, rv |-> Undef,
                  cst |-> coStatus, yv |-> coYieldVars]
    IN CASE h = HYield ->
              IF coRunning
              THEN [plain EXCEPT !.cst = "suspending", !.yv = as]
              ELSE [plain EXCEPT !.threw = TRUE, !.lua = TRUE]
         [] h = HEcho -> [plain EXCEPT !.rv = Arr(as)]
         [] h = HThrow -> [plain EXCEPT !.threw = TRUE]
         [] h = HNext ->
              [plain EXCEPT !.rv =
                  IF Len(as) >= 2 /\ as[2].t = "num" /\ as[2].v > 1
                  THEN Arr(<< Num(as[2].v - 1) >>) ELSE Arr(<< Nil >>)]
         [] OTHER -> [plain EXCEPT !.rv = Arr(RetChoices[h.v - 10])]

IsCallable(x) == x.t \in {"fn", "host"}

\* A variant of the tail of call (a, b, c) that splices what the callee
\* returned before it looks at the coroutine's status.
CallFinishSplice(a2, a, c, rv, cst, yv, dst) ==
    RunCheck([a2 EXCEPT ![Cur].register =
                 CallSplice(@, a, c, IF rv.def THEN rv.vals ELSE << Nil >>)],
             Undef, cst, yv, dst)

\* The tail of call (a, b, c), from the application's return on, and what
\* _run does next: rv is what the callee returned.
CallFinish(a2, a, c, rv, cst, yv, dst) ==
    LET retvals == IF rv.def THEN rv.vals ELSE << Nil >>
    IN IF coRunning /\ cst = "suspending"
       THEN RunCheck(a2, Undef, cst, yv, dst)
       ELSE RunCheck([a2 EXCEPT ![Cur].register = CallSplice(@, a, c, retvals)],
                     Undef, cst, yv, dst)

\* A variant of call (a, b, c) that applies R[a] to its arguments whatever the
\* status is, also when the instruction is executed again during a resume.
CallBodyReapply(a, b, c) ==
    LET f == RegGet(CurAct.register, a)
        as == CallArgs(CurAct.register, a, b)
    IN IF ~IsCallable(f)
       THEN Throw(Stepped, LuaError("Attempt to call non-function"))
            /\ tabs' = tabs
       ELSE IF f.t = "fn"
       THEN /\ tabs' = ExecuteTabs(funcs[f.v].proto, as)
            /\ Enter(Append(Stepped,
                            ExecuteAct(funcs[f.v].proto, funcs[f.v].ups, as)),
                     Len(acts) + 1, TRUE, coRunning, coStatus,
                     coResumeStack, coYieldVars, dbgStatus, dbgResumeStack)
       ELSE LET h == HostApply(f, as)
            IN /\ tabs' = tabs
               /\ IF h.threw
                  THEN Throw(Stepped, IF h.lua THEN LuaError("yield")
                                      ELSE HostError("host"))
                  ELSE CallFinish(Stepped, a, c, h.rv, h.cst, h.yv, dbgStatus)

\* call (a, b, c) up to the application of the callee (or the restart of the
\* suspended callee); a host callee returns within the same step.
CallBody(a, b, c) ==
    IF dbgStatus = "resuming"
    THEN IF dbgResumeStack = << >>
         THEN Throw(Stepped, HostError("TypeError")) /\ tabs' = tabs
         ELSE /\ Enter(Stepped, dbgResumeStack[Len(dbgResumeStack)], FALSE,
                       coRunning, coStatus, coResumeStack, coYieldVars,
                       dbgStatus, Front(dbgResumeStack))
              /\ tabs' = tabs
    ELSE IF coRunning /\ coStatus = "resuming"
    THEN IF coResumeStack = << >>
         THEN Throw(Stepped, HostError("TypeError")) /\ tabs' = tabs
         ELSE /\ Enter(Stepped, coResumeStack[Len(coResumeStack)], FALSE,
                       coRunning, coStatus, Front(coResumeStack), coYieldVars,
                       dbgStatus, dbgResumeStack)
              /\ tabs' = tabs
    ELSE LET f == RegGet(CurAct.register, a)
             as == CallArgs(CurAct.register, a, b)
         IN IF ~IsCallable(f)
            THEN Throw(Stepped, LuaError("Attempt to call non-function"))
                 /\ tabs' = tabs
            ELSE IF f.t = "fn"
            THEN /\ tabs' = ExecuteTabs(funcs[f.v].proto, as)
                 /\ Enter(Append(Stepped,
                                 ExecuteAct(funcs[f.v].proto, funcs[f.v].ups, as)),
                          Len(acts) + 1, TRUE, coRunning, coStatus,
                          coResumeStack, coYieldVars, dbgStatus, dbgResumeStack)
            ELSE LET h == HostApply(f, as)
                 IN /\ tabs' = tabs
                    /\ IF h.threw
                       THEN Throw(Stepped, IF h.lua THEN LuaError("yield")
                                           ELSE HostError("host"))
                       ELSE CallFinish(Stepped, a, c, h.rv, h.cst, h.yv, dbgStatus)

Call ==
    /\ Ready /\ I.op = OP_CALL /\ Fetched
    /\ CallBody(I.A, I.B, I.C)
    /\ UNCHANGED << fixed, funcs, cells >>

\* The instruction whose handler is waiting for the frame that just returned.
Pending == InstrAt(CurAct, CurAct.pc - 1)
Returned == mode = "ret" /\ stack # << >> /\ HasInstr(CurAct, CurAct.pc - 1)

CallReturn ==
    /\ Returned /\ Pending.op = OP_CALL
    /\ CallFinish(acts, Pending.A, Pending.C, retv, coStatus, coYieldVars,
                  dbgStatus)
    /\ UNCHANGED << fixed, heap, steps, trace >>

\* The loop of _run finds no instruction at pc: terminated is set and _run
\* returns undefined.
RunEnd ==
    /\ mode = "run" /\ ~HasInstr(CurAct, CurAct.pc)
    /\ Leave([acts EXCEPT ![Cur].terminated = TRUE], Undef)
    /\ UNCHANGED << fixed, heap, steps, trace, err, coRunning, coStatus,
                    coResumeStack, coYieldVars, dbgStatus, dbgResumeStack >>

\* linePositions[pc - 1], 0 standing for undefined.
LineAt(a) ==
    IF HasInstr(a, a.pc - 1) THEN P(a.proto).linePositions[a.pc] ELSE 0

\* The catch of execute: a host error is wrapped (its host stack becomes the
\* first line of luaStack), a frame is appended and the error is thrown on.
ExecuteCatch ==
    /\ mode = "throw" /\ stack # << >> /\ Top.exec
    /\ LET e == IF err.lua THEN err
                ELSE [lua |-> TRUE, msg |-> "Error in host call",
                      luaStack |-> << [src |-> 0, line |-> 0] >>]
       IN err' = [e EXCEPT !.luaStack =
                     Append(@, [src |-> CurAct.proto, line |-> LineAt(CurAct)])]
    /\ stack' = Front(stack)
    /\ UNCHANGED << fixed, heap, acts, steps, trace, mode, retv, coRunning,
                    coStatus, coResumeStack, coYieldVars, dbgStatus,
                    dbgResumeStack >>

\* An exception leaves a frame that _run was restarted in (no execute, so no
\* catch, is on the JavaScript stack for it).
Propagate ==
    /\ mode = "throw" /\ stack # << >> /\ ~Top.exec
    /\ stack' = Front(stack)
    /\ UNCHANGED << fixed, heap, acts, steps, trace, mode, retv, err, coRunning,
                    coStatus, coResumeStack, coYieldVars, dbgStatus,
                    dbgResumeStack >>

\* ---------------------------------------------------------------- the host
\* The callers of the core: a plain call of the entry function, and the
\* coroutine controller (luajs.Coroutine), which is not part of Closure.js.

NoArg(x) == \A i \in DOMAIN args : args[i] # x
emptyCo == << coResumeStack, coYieldVars >>

\* The host calls the entry function outside any coroutine.
HostExecute ==
    /\ mode = "idle" /\ result.kind = "none" /\ acts = << >>
    /\ NoArg(HYield)
    /\ tabs' = ExecuteTabs(1, args)
    /\ Enter(<< ExecuteAct(1, << >>, args) >>, 1, TRUE, FALSE, coStatus,
             coResumeStack, coYieldVars, dbgStatus, dbgResumeStack)
    /\ UNCHANGED << prog, args, ref, result, resumes, coEntry, funcs, cells,
                    steps, trace >>

\* The first resume of a coroutine made of the entry function: the function
\* is applied with the coroutine running.
CoroutineStart ==
    /\ mode = "idle" /\ result.kind = "none" /\ acts = << >>
    /\ \A i \in DOMAIN args : ~IsHRet(args[i])
    /\ coEntry' = 1
    /\ tabs' = ExecuteTabs(1, args)
    /\ Enter(<< ExecuteAct(1, << >>, args) >>, 1, TRUE, TRUE, "running",
             coResumeStack, coYieldVars, dbgStatus, dbgResumeStack)
    /\ UNCHANGED << prog, args, ref, result, resumes, funcs, cells, steps,
                    trace >>

\* A later resume with the values RetChoices[k]: the status becomes resuming,
\* the values become the yield vector, and the activation on top of the
\* resume stack is popped and restarted.
CoroutineResume ==
    /\ mode = "idle" /\ coEntry # 0 /\ coStatus = "suspended"
    /\ coResumeStack # << >> /\ resumes < MaxResumes
    /\ \E k \in 1..Len(RetChoices) :
          /\ ref.set => k = ref.k
          /\ Enter(acts, coResumeStack[Len(coResumeStack)], FALSE, TRUE,
                   "resuming", Front(coResumeStack), RetChoices[k], dbgStatus,
                   dbgResumeStack)
    /\ resumes' = resumes + 1
    /\ UNCHANGED << prog, args, ref, result, coEntry, heap, steps, trace >>

\* The entry activation returned to the host (or to resume, which marks a
\* coroutine that did not suspend as dead).
HostReturn ==
    /\ mode = "ret" /\ stack = << >>
    /\ mode' = "idle"
    /\ result' = [kind |-> IF coEntry # 0 /\ coStatus = "suspended"
                           THEN "yield" ELSE "values",
                  ret |-> retv, err |-> NoErr]
    /\ coStatus' = IF coEntry # 0 /\ coStatus # "suspended" THEN "dead"
                   ELSE coStatus
    /\ coRunning' = FALSE
    /\ UNCHANGED << prog, args, ref, resumes, coEntry, heap, acts, stack, retv,
                    err, emptyCo, dbgStatus, dbgResumeStack, steps, trace >>

\* The error left the outermost frame.
HostCatch ==
    /\ mode = "throw" /\ stack = << >>
    /\ mode' = "idle"
    /\ result' = [kind |-> "error", ret |-> Undef, err |-> err]
    /\ coStatus' = IF coEntry # 0 THEN "dead" ELSE coStatus
    /\ coRunning' = FALSE
    /\ UNCHANGED << prog, args, ref, resumes, coEntry, heap, acts, stack, retv,
                    err, emptyCo, dbgStatus, dbgResumeStack, steps, trace >>

\* The comparison run: once the program has run to its end with the direct
\* callee HRet(k), the host runs it again from scratch as a coroutine, with
\* coroutine.yield in place of that callee, and resumes it with RetChoices[k].
\* ref keeps the outcome of the first run, HRet(k) read as coroutine.yield.
SubstV(x) == IF IsHRet(x) THEN HYield ELSE x
SubstSeq(s) == [i \in DOMAIN s |-> SubstV(s[i])]
SubstActs(a2) ==
    [i \in DOMAIN a2 |->
        [a2[i] EXCEPT !.register = SubstSeq(@), !.params = SubstSeq(@)]]
SubstCells(cs) == [i \in DOMAIN cs |-> [cs[i] EXCEPT !.value = SubstV(@)]]
SubstResult(r) == [r EXCEPT !.ret.vals = SubstSeq(@)]
Finished == mode = "idle" /\ result.kind \in {"values", "error"}

Rerun ==
    /\ Finished /\ ~ref.set
    /\ \E i \in DOMAIN args : IsHRet(args[i])
    /\ ref' = [set |-> TRUE, acts |-> SubstActs(acts), funcs |-> funcs,
               cells |-> SubstCells(cells), tabs |-> tabs,
               result |-> SubstResult(result), trace |-> trace,
               k |-> args[CHOOSE i \in DOMAIN args : IsHRet(args[i])].v - 10]
    /\ args' = SubstSeq(args)
    /\ acts' = << >> /\ cells' = << >>
    /\ funcs' = prog.funcs0 /\ tabs' = prog.tabs0
    /\ result' = NoResult /\ steps' = 0 /\ trace' = << >>
    /\ UNCHANGED << prog, stack, mode, retv, err, coRunning, coStatus,
                    coResumeStack, coYieldVars, coEntry, dbgStatus,
                    dbgResumeStack, resumes >>


\* A variant of the search that never finds an entry.
FindLocalNever(ls, b) == 0

\* The index of the first entry of ls for register b, 0 if there is none.
FindLocal(ls, b) ==
    IF \E j \in DOMAIN ls : ls[j].registerIndex = b
    THEN CHOOSE j \in DOMAIN ls :
            /\ ls[j].registerIndex = b
            /\ \A k \in DOMAIN ls : ls[k].registerIndex = b => j <= k
    ELSE 0

\* A new open cell for register b of activation me.  gen is a history field
\* (the code has none): how many cells for the same register of the same
\* activation had been closed before this one was made.
NewUpvalue(cs, me, b) ==
    [open |-> TRUE, value |-> Nil, act |-> me, reg |-> b, deleg |-> 0,
     gen |-> Cardinality({k \in DOMAIN cs :
                 cs[k].deleg = 0 /\ cs[k].act = me /\ cs[k].reg = b
                 /\ ~cs[k].open})]

\* A variant of the capture that never reuses the cell of an entry.
CaptureLocalFresh(ls, cs, me, b) ==
    [locals |-> Append(ls, [registerIndex |-> b, upvalue |-> Len(cs) + 1]),
     cells |-> Append(cs, NewUpvalue(cs, me, b)),
     upvalue |-> Len(cs) + 1]

\* The upvalue a MOVE pseudo-instruction with operand b binds, given the
\* captured-locals list ls and the cells cs: the cell of the entry for b if
\* there is one, else a new cell, recorded in a new entry.
CaptureLocal(ls, cs, me, b) ==
    LET j == FindLocal(ls, b)
    IN IF j # 0
       THEN [locals |-> ls, cells |-> cs, upvalue |-> ls[j].upvalue]
       ELSE [locals |-> Append(ls, [registerIndex |-> b,
                                    upvalue |-> Len(cs) + 1]),
             cells |-> Append(cs, NewUpvalue(cs, me, b)),
             upvalue |-> Len(cs) + 1]

\* The loop of closure (a, bx) over the pseudo-instructions that follow it
\* (MOVE or GETUPVAL with A = 0), from pc on: the pc after them, the
\* captured-locals list, the cells, the upvalues bound, and whether reading
\* a missing upvalue of the activation threw.
RECURSIVE ClosureScan(_, _, _, _, _)
ClosureScan(me, pc, ls, cs, ups) ==
    LET a == acts[me]
    IN IF ~(HasInstr(a, pc) /\ InstrAt(a, pc).op \in {OP_MOVE, OP_GETUPVAL}
            /\ InstrAt(a, pc).A = 0)
       THEN [pc |-> pc, locals |-> ls, cells |-> cs, ups |-> ups,
             threw |-> FALSE]
       ELSE LET i == InstrAt(a, pc)
            IN IF i.op = OP_MOVE
               THEN LET c == CaptureLocal(ls, cs, me, i.B)
                    IN ClosureScan(me, pc + 1, c.locals, c.cells,
                                   Append(ups, c.upvalue))
               ELSE IF i.B + 1 \in DOMAIN a.upvalues
               THEN ClosureScan(me, pc + 1, ls,
                                Append(cs, [open |-> TRUE, value |-> Nil,
                                            act |-> me, reg |-> i.B,
                                            deleg |-> a.upvalues[i.B + 1],
                                            gen |-> 0]),
                                Append(ups, Len(cs) + 1))
               ELSE [pc |-> pc, locals |-> ls, cells |-> cs, ups |-> ups,
                     threw |-> TRUE]

Closure ==
    /\ Ready /\ I.op = OP_CLOSURE /\ Fetched
    /\ LET s == ClosureScan(Cur, CurAct.pc + 1, CurAct.localsUsedAsUpvalues,
                            cells, << >>)
           a2 == [acts EXCEPT ![Cur].pc = s.pc,
                              ![Cur].localsUsedAsUpvalues = s.locals]
       IN /\ cells' = s.cells
          /\ IF s.threw \/ I.B + 1 \notin DOMAIN P(CurAct.proto).functions
             THEN Throw(a2, HostError("TypeError")) /\ funcs' = funcs
             ELSE /\ funcs' = Append(funcs,
                        [proto |-> P(CurAct.proto).functions[I.B + 1],
                         ups |-> s.ups])
                  /\ Continue([a2 EXCEPT ![Cur].register =
                                  RegSet(@, I.A, Fn(Len(funcs) + 1))])
    /\ UNCHANGED << fixed, tabs >>

\* A variant of the loop of close (a) that spares the entries for register a.
RECURSIVE CloseLoopAbove(_, _, _, _)
CloseLoopAbove(ls, r, cs, a) ==
    IF ls = << >> THEN [locals |-> << >>, register |-> r, cells |-> cs]
    ELSE LET l == Head(ls)
         IN IF l.registerIndex > a
            THEN CloseLoopAbove(Tail(ls), RegDelete(r, l.registerIndex),
                                [cs EXCEPT ![l.upvalue].value =
                                               RegGet(r, l.registerIndex),
                                           ![l.upvalue].open = FALSE], a)
            ELSE LET rest == CloseLoopAbove(Tail(ls), r, cs, a)
                 IN [rest EXCEPT !.locals = << l >> \o @]

\* A variant of the loop of close (a) that closes the cells and keeps their
\* entries in the list.
RECURSIVE CloseLoopKeep(_, _, _, _)
CloseLoopKeep(ls, r, cs, a) ==
    IF ls = << >> THEN [locals |-> << >>, register |-> r, cells |-> cs]
    ELSE LET l == Head(ls)
             rest == IF l.registerIndex >= a
                     THEN CloseLoopKeep(Tail(ls), RegDelete(r, l.registerIndex),
                                        [cs EXCEPT ![l.upvalue].value =
                                                       RegGet(r, l.registerIndex),
                                                   ![l.upvalue].open = FALSE], a)
                     ELSE CloseLoopKeep(Tail(ls), r, cs, a)
         IN [rest EXCEPT !.locals = << l >> \o @]

\* A variant of the loop of close (a) that, having removed an entry, steps
\* over the entry that follows it.
RECURSIVE CloseLoopSkip(_, _, _, _)
CloseLoopSkip(ls, r, cs, a) ==
    IF ls = << >> THEN [locals |-> << >>, register |-> r, cells |-> cs]
    ELSE LET l == Head(ls)
         IN IF l.registerIndex >= a
            THEN LET rest == CloseLoopSkip(
                                IF Len(ls) > 1 THEN Tail(Tail(ls)) ELSE << >>,
                                RegDelete(r, l.registerIndex),
                                [cs EXCEPT ![l.upvalue].value =
                                               RegGet(r, l.registerIndex),
                                           ![l.upvalue].open = FALSE], a)
                 IN [rest EXCEPT !.locals =
                        (IF Len(ls) > 1 THEN << ls[2] >> ELSE << >>) \o @]
            ELSE LET rest == CloseLoopSkip(Tail(ls), r, cs, a)
                 IN [rest EXCEPT !.locals = << l >> \o @]

\* The loop of close (a): the entries with registerIndex >= a are closed and
\* removed, in list order; the others stay.
RECURSIVE CloseLoop(_, _, _, _)
CloseLoop(ls, r, cs, a) ==
    IF ls = << >> THEN [locals |-> << >>, register |-> r, cells |-> cs]
    ELSE LET l == Head(ls)
         IN IF l.registerIndex >= a
            THEN CloseLoop(Tail(ls), RegDelete(r, l.registerIndex),
                           [cs EXCEPT ![l.upvalue].value =
                                          RegGet(r, l.registerIndex),
                                      ![l.upvalue].open = FALSE], a)
            ELSE LET rest == CloseLoop(Tail(ls), r, cs, a)
                 IN [rest EXCEPT !.locals = << l >> \o @]

Close ==
    /\ Ready /\ I.op = OP_CLOSE /\ Fetched
    /\ LET c == CloseLoop(CurAct.localsUsedAsUpvalues, CurAct.register, cells,
                          I.A)
       IN /\ cells' = c.cells
          /\ Continue([Stepped EXCEPT ![Cur].register = c.register,
                                      ![Cur].localsUsedAsUpvalues = c.locals])
    /\ UNCHANGED << fixed, funcs, tabs >>

\* RK (x): constant x - 256 when x >= 256, else register x.
RK(a, x) == IF x >= 256 THEN GetConstant(a, x - 256) ELSE RegGet(a.register, x)

\* JavaScript: !x is true of undefined, false, 0, NaN and "".
JsFalsy(x) ==
    \/ x.t \in {"nil", "nan"}
    \/ x.t \in {"bool", "num"} /\ x.v = 0
    \/ x = SEmpty

\* ('' + x).match (FLOATING_POINT_PATTERN): the numbers, "7" and "".
MatchesFloat(x) == x.t = "num" \/ x \in {SSeven, SEmpty}
\* parseFloat (x) for such an x.
ParseFloat(x) == IF x.t = "num" THEN x ELSE IF x = SSeven THEN Num(7) ELSE NaN
\* Number (x), the conversion of < and <= and ==.
ToNumber(x) ==
    CASE x.t = "num" -> x
      [] x.t = "bool" -> Num(x.v)
      [] x = SSeven -> Num(7)
      [] x = SEmpty -> Num(0)
      [] OTHER -> NaN
\* The place of a string in the order of strings: "" < "7" < "hello".
StrRank(x) == IF x = SEmpty THEN 0 ELSE IF x = SSeven THEN 1 ELSE 2

JsLess(x, y) ==
    IF x.t = "str" /\ y.t = "str" THEN StrRank(x) < StrRank(y)
    ELSE ToNumber(x).t = "num" /\ ToNumber(y).t = "num"
         /\ ToNumber(x).v < ToNumber(y).v
JsLessEq(x, y) ==
    IF x.t = "str" /\ y.t = "str" THEN StrRank(x) <= StrRank(y)
    ELSE ToNumber(x).t = "num" /\ ToNumber(y).t = "num"
         /\ ToNumber(x).v <= ToNumber(y).v
\* x == a for a number a (the operand A of a comparison).
JsLooseEqNum(x, a) ==
    x.t \in {"num", "bool", "str"} /\ ToNumber(x).t = "num" /\ ToNumber(x).v = a
\* x + y and x - y on numbers (NaN when an operand is undefined or NaN).
JsPlus(x, y) == IF x.t = "num" /\ y.t = "num" THEN Num(x.v + y.v) ELSE NaN
JsMinus(x, y) == IF x.t = "num" /\ y.t = "num" THEN Num(x.v - y.v) ELSE NaN

\* mt.getMember (name) of the metatable of x, nil when x is no table or has
\* no metatable.
MetaMember(x, name) ==
    IF x.t = "tab" /\ tabs[x.v].metatable # 0
    THEN tabs[tabs[x.v].metatable][name] ELSE Nil

\* f.apply (as) for a Lua function f: execute of a new activation.
ApplyLua(f, as) ==
    /\ tabs' = ExecuteTabs(funcs[f.v].proto, as)
    /\ Enter(Append(Stepped, ExecuteAct(funcs[f.v].proto, funcs[f.v].ups, as)),
             Len(acts) + 1, TRUE, coRunning, coStatus, coResumeStack,
             coYieldVars, dbgStatus, dbgResumeStack)

Jmp ==
    /\ Ready /\ I.op = OP_JMP /\ Fetched
    /\ Continue([Stepped EXCEPT ![Cur].pc = @ + I.B])
    /\ UNCHANGED << fixed, heap >>

\* The end of eq, lt and le: if (result != a) this._pc++.
Skip(a2, differs) == IF differs THEN [a2 EXCEPT ![Cur].pc = @ + 1] ELSE a2

Test ==
    /\ Ready /\ I.op = OP_TEST /\ Fetched
    /\ LET x == RegGet(CurAct.register, I.A)
       IN Continue(Skip(Stepped,
              IF x = Num(0) \/ x = SEmpty THEN I.C = 0
              ELSE JsFalsy(x) # (I.C = 0)))
    /\ UNCHANGED << fixed, heap >>

Testset ==
    /\ Ready /\ I.op = OP_TESTSET /\ Fetched
    /\ LET x == RegGet(CurAct.register, I.B)
       IN IF JsFalsy(x) = (I.C = 0)
          THEN Wrote(RegSet(CurAct.register, I.A, x))
          ELSE Continue(Skip(Stepped, TRUE))
    /\ UNCHANGED << fixed, heap >>

\* not (a, b): the JavaScript negation of R[b].
Not ==
    /\ Ready /\ I.op = OP_NOT /\ Fetched
    /\ Wrote(RegSet(CurAct.register, I.A,
                    Bool(JsFalsy(RegGet(CurAct.register, I.B)))))
    /\ UNCHANGED << fixed, heap >>

\* A variant of forprep that jumps to the loop test without the subtraction.
ForprepKeep ==
    /\ Ready /\ I.op = OP_FORPREP /\ Fetched
    /\ Continue([Stepped EXCEPT ![Cur].pc = @ + I.B])
    /\ UNCHANGED << fixed, heap >>

Forprep ==
    /\ Ready /\ I.op = OP_FORPREP /\ Fetched
    /\ LET r == CurAct.register
       IN Continue([Stepped EXCEPT
              ![Cur].register = RegSet(r, I.A, JsMinus(RegGet(r, I.A),
                                                       RegGet(r, I.A + 2))),
              ![Cur].pc = @ + I.B])
    /\ UNCHANGED << fixed, heap >>

Forloop ==
    /\ Ready /\ I.op = OP_FORLOOP /\ Fetched
    /\ LET r == CurAct.register
           step == RegGet(r, I.A + 2)
           r1 == RegSet(r, I.A, JsPlus(RegGet(r, I.A), step))
           up == step.t = "num" /\ step.v > 0
           go == \/ up /\ JsLessEq(RegGet(r1, I.A), RegGet(r1, I.A + 1))
                 \/ ~up /\ JsLessEq(RegGet(r1, I.A + 1), RegGet(r1, I.A))
       IN IF go
          THEN Continue([Stepped EXCEPT
                   ![Cur].register = RegSet(r1, I.A + 3, RegGet(r1, I.A)),
                   ![Cur].pc = @ + I.B])
          ELSE Wrote(r1)
    /\ UNCHANGED << fixed, heap >>

\* The two loops of vararg (a, b).
RECURSIVE VarargClear(_, _)
VarargClear(r, i) == IF i >= Len(r) THEN r ELSE VarargClear(RegDelete(r, i), i + 1)

Vararg ==
    /\ Ready /\ I.op = OP_VARARG /\ Fetched
    /\ LET n == P(CurAct.proto).paramCount
           limit == IF I.B = 0 THEN Len(CurAct.params) - n ELSE I.B - 1
           extras == [k \in 1..Max(0, limit) |->
                         IF n + k <= Len(CurAct.params)
                         THEN CurAct.params[n + k] ELSE Nil]
       IN Wrote(VarargClear(RegCopy(CurAct.register, I.A, extras, limit),
                            I.A + limit))
    /\ UNCHANGED << fixed, heap >>

\* typeof x, and x === y (NaN is not equal to itself; objects by identity).
TypeOf(x) ==
    CASE x.t = "nil" -> "undefined"
      [] x.t = "bool" -> "boolean"
      [] x.t \in {"num", "nan"} -> "number"
      [] x.t = "str" -> "string"
      [] x.t = "host" -> "function"
      [] OTHER -> "object"
JsStrictEq(x, y) == x = y /\ x.t # "nan"
\* A boolean compared with the operand A by != .
BoolNum(b) == IF b THEN 1 ELSE 0

\* The rest of add, eq, lt and le once the metamethod returned rv, and what
\* _run does next: f.apply (...)[0] throws when f returned undefined.
MetaFinish(a2, i, rv, cst, yv) ==
    IF ~rv.def
    THEN ThrowAfter(a2, HostError("TypeError"), cst, yv)
    ELSE LET v == IF rv.vals = << >> THEN Nil ELSE rv.vals[1]
         IN RunCheck(CASE i.op = OP_ADD ->
                            [a2 EXCEPT ![Cur].register = RegSet(@, i.A, v)]
                       [] i.op = OP_EQ ->
                            Skip(a2, BoolNum(~JsFalsy(v)) # i.A)
                       [] OTHER -> Skip(a2, ~JsLooseEqNum(v, i.A)),
                     Undef, cst, yv, dbgStatus)

\* f.apply ([b, c]) for the metamethod f: a Lua function gets b and c, a host
\* function is called without arguments, anything else has no apply.
MetaApply(f, b, c) ==
    IF f.t = "fn" THEN ApplyLua(f, << b, c >>)
    ELSE /\ tabs' = tabs
         /\ IF f.t = "host"
            THEN LET h == HostApply(f, << >>)
                 IN IF h.threw
                    THEN Throw(Stepped, IF h.lua THEN LuaError("yield")
                                        ELSE HostError("host"))
                    ELSE MetaFinish(Stepped, I, h.rv, h.cst, h.yv)
            ELSE Throw(Stepped, HostError("TypeError"))

Add ==
    /\ Ready /\ I.op = OP_ADD /\ Fetched
    /\ LET b == RK(CurAct, I.B)
           c == RK(CurAct, I.C)
           f == MetaMember(b, "add")
       IN IF ~JsFalsy(f)
          THEN MetaApply(f, b, c)
          ELSE /\ tabs' = tabs
               /\ IF ~MatchesFloat(b) \/ ~MatchesFloat(c)
                  THEN Throw(Stepped, LuaError(
                         "attempt to perform arithmetic on a non-numeric value"))
                  ELSE Wrote(RegSet(CurAct.register, I.A,
                                    JsPlus(ParseFloat(b), ParseFloat(c))))
    /\ UNCHANGED << fixed, funcs, cells >>

Eq ==
    /\ Ready /\ I.op = OP_EQ /\ Fetched
    /\ LET b == RK(CurAct, I.B)
           c == RK(CurAct, I.C)
           f == MetaMember(b, "eq")
       IN IF ~JsStrictEq(b, c) /\ TypeOf(b) = TypeOf(c) /\ ~JsFalsy(f)
          THEN MetaApply(f, b, c)
          ELSE /\ tabs' = tabs
               /\ Continue(Skip(Stepped, BoolNum(JsStrictEq(b, c)) # I.A))
    /\ UNCHANGED << fixed, funcs, cells >>

Lt ==
    /\ Ready /\ I.op = OP_LT /\ Fetched
    /\ LET b == RK(CurAct, I.B)
           c == RK(CurAct, I.C)
           f == MetaMember(b, "le")
       IN IF ~JsFalsy(f)
          THEN MetaApply(f, b, c)
          ELSE /\ tabs' = tabs
               /\ Continue(Skip(Stepped, BoolNum(JsLess(b, c)) # I.A))
    /\ UNCHANGED << fixed, funcs, cells >>

Le ==
    /\ Ready /\ I.op = OP_LE /\ Fetched
    /\ LET b == RK(CurAct, I.B)
           c == RK(CurAct, I.C)
           f == MetaMember(b, "le")
       IN IF ~JsStrictEq(b, c) /\ TypeOf(b) = TypeOf(c) /\ ~JsFalsy(f)
          THEN MetaApply(f, b, c)
          ELSE /\ tabs' = tabs
               /\ Continue(Skip(Stepped, BoolNum(JsLessEq(b, c)) # I.A))
    /\ UNCHANGED << fixed, funcs, cells >>

\* The Lua metamethod applied by add, eq, lt or le returned.
MetaReturn ==
    /\ Returned /\ Pending.op \in {OP_ADD, OP_EQ, OP_LT, OP_LE}
    /\ MetaFinish(acts, Pending, retv, coStatus, coYieldVars)
    /\ UNCHANGED << fixed, heap, steps, trace >>

\* The rest of tforloop (a, b, c) once the iterator returned rv, and what
\* _run does next.
TforloopFinish(a2, i, rv, cst, yv) ==
    LET got == IF rv.def THEN rv.vals ELSE << Nil >>
        retvals == IF got # << >> /\ got[1] = SSeven
                   THEN [got EXCEPT ![1] = Num(7)] ELSE got
        r1 == RegCopy(a2[Cur].register, i.A + 3, retvals, i.C)
    IN RunCheck(IF RegGet(r1, i.A + 3) # Nil
                THEN [a2 EXCEPT ![Cur].register =
                         RegSet(r1, i.A + 2, RegGet(r1, i.A + 3))]
                ELSE [a2 EXCEPT ![Cur].register = r1, ![Cur].pc = @ + 1],
                Undef, cst, yv, dbgStatus)

Tforloop ==
    /\ Ready /\ I.op = OP_TFORLOOP /\ Fetched
    /\ LET r == CurAct.register
           f == RegGet(r, I.A)
           as == << RegGet(r, I.A + 1), RegGet(r, I.A + 2) >>
       IN IF f.t = "fn" THEN ApplyLua(f, as)
          ELSE /\ tabs' = tabs
               /\ IF f.t = "host"
                  THEN LET h == HostApply(f, as)
                       IN IF h.threw
                          THEN Throw(Stepped, IF h.lua THEN LuaError("yield")
                                              ELSE HostError("host"))
                          ELSE TforloopFinish(Stepped, I, h.rv, h.cst, h.yv)
                  ELSE Throw(Stepped, HostError("TypeError"))
    /\ UNCHANGED << fixed, funcs, cells >>

TforloopReturn ==
    /\ Returned /\ Pending.op = OP_TFORLOOP
    /\ TforloopFinish(acts, Pending, retv, coStatus, coYieldVars)
    /\ UNCHANGED << fixed, heap, steps, trace >>

\* tailcall (a, b) is `return call (a, b, 0)`: call runs without a receiver,
\* so it can restart a suspended activation but its first use of
\* this._register throws.
Tailcall ==
    /\ Ready /\ I.op = OP_TAILCALL /\ Fetched
    /\ IF dbgStatus = "resuming" /\ dbgResumeStack # << >>
       THEN Enter(Stepped, dbgResumeStack[Len(dbgResumeStack)], FALSE,
                  coRunning, coStatus, coResumeStack, coYieldVars,
                  dbgStatus, Front(dbgResumeStack))
       ELSE IF dbgStatus # "resuming" /\ coRunning /\ coStatus = "resuming"
               /\ coResumeStack # << >>
       THEN Enter(Stepped, coResumeStack[Len(coResumeStack)], FALSE,
                  coRunning, coStatus, Front(coResumeStack), coYieldVars,
                  dbgStatus, dbgResumeStack)
       ELSE Throw(Stepped, HostError("TypeError"))
    /\ UNCHANGED << fixed, heap >>

TailcallReturn ==
    /\ Returned /\ Pending.op = OP_TAILCALL
    /\ IF coRunning /\ coStatus = "suspending"
       THEN RunCheck(acts, Undef, coStatus, coYieldVars, dbgStatus)
       ELSE Throw(acts, HostError("TypeError"))
    /\ UNCHANGED << fixed, heap, steps, trace >>

\* --------------------------------------------------------------- behaviours

Next ==
    \/ HostExecute \/ CoroutineStart \/ CoroutineResume \/ HostReturn
    \/ HostCatch \/ Rerun
    \/ Move \/ Loadk \/ Loadbool \/ Loadnil \/ Getupval \/ Setupval
    \/ Add \/ Not \/ Jmp \/ Eq \/ Lt \/ Le \/ Test \/ Testset
    \/ Call \/ CallReturn \/ Tailcall \/ TailcallReturn \/ Return
    \/ Forloop \/ Forprep \/ Tforloop \/ TforloopReturn \/ MetaReturn
    \/ Close \/ Closure \/ Vararg
    \/ RunEnd \/ ExecuteCatch \/ Propagate

Spec == Init /\ [][Next]_vars

\* The interpreter runs to completion: a step that can be taken is taken.
FairSpec == Spec /\ WF_vars(Next)

\* ------------------------------------------------------------------ claims

\* C1: a run of a coroutine whose yields happen inside CALLs (at call depth
\* 0, 1 and 2, with C = 0 and C > 0), each resumed with the values v, ends
\* with the same registers and pcs of every activation, the same sequence of
\* executed instructions and the same returned values as the run in which
\* the callee directly returned v.
C1_ResumeEquivalence ==
    (ref.set /\ Finished) =>
        /\ result.kind = ref.result.kind
        /\ result.ret = ref.result.ret
        /\ result.err.msg = ref.result.err.msg
        /\ acts = ref.acts
        /\ funcs = ref.funcs
        /\ cells = ref.cells
        /\ trace = ref.trace

\* Both runs are over, the second one suspended through three nested
\* activations and was resumed, and it returned values.
C1_Witness ==
    /\ ref.set /\ Finished /\ resumes > 0 /\ Len(acts) = 3
    /\ result.kind = "values" /\ result.ret.vals # << >>

\* C2: two upvalues of function objects that were bound to the same register
\* of the same activation with no close of that register in between are the
\* same cell, and read the same value, while the parent is live and after.
C2_SharedCell ==
    LET Key(c) == LET u == cells[UpTarget(cells, c)]
                  IN << u.act, u.reg, u.gen >>
    IN \A f, g \in DOMAIN funcs :
          \A i \in DOMAIN funcs[f].ups : \A j \in DOMAIN funcs[g].ups :
             Key(funcs[f].ups[i]) = Key(funcs[g].ups[j]) =>
                /\ UpTarget(cells, funcs[f].ups[i]) = UpTarget(cells, funcs[g].ups[j])
                /\ UpGetValue(acts, cells, funcs[f].ups[i])
                     = UpGetValue(acts, cells, funcs[g].ups[j])

\* Three function objects (one of them through the upvalue of its maker)
\* hold one cell, closed by the parent's RETURN and then set to 5 by one.
C2_Witness ==
    \E c \in DOMAIN cells :
       /\ cells[c].deleg = 0 /\ ~cells[c].open /\ cells[c].value = Num(5)
       /\ Cardinality({f \in DOMAIN funcs :
              \E i \in DOMAIN funcs[f].ups :
                 UpTarget(cells, funcs[f].ups[i]) = c}) >= 3

\* C3: a terminated activation has an empty captured-locals list and every
\* cell made for one of its locals is closed.
C3_TerminatedClosed ==
    \A a \in DOMAIN acts :
       acts[a].terminated =>
          /\ acts[a].localsUsedAsUpvalues = << >>
          /\ \A c \in DOMAIN cells :
                (cells[c].deleg = 0 /\ cells[c].act = a) => ~cells[c].open

\* C4: a cell of a captured local never reopens; it closes exactly in the
\* step in which its activation executes RETURN or CLOSE (A) with A <= its
\* register, taking the register's value; once closed its value changes only
\* by a SETUPVAL through it, which changes no register, and get returns that
\* value whatever the registers hold.
C4_CellLifecycle ==
    [][ Len(cells') >= Len(cells) =>
          \A c \in DOMAIN cells :
             cells[c].deleg = 0 =>
                LET u == cells[c]
                    u2 == cells'[c]
                    fetch == mode = "run" /\ steps' = steps + 1
                    closes == /\ fetch /\ Cur = u.act
                              /\ \/ I.op = OP_RETURN
                                 \/ I.op = OP_CLOSE /\ I.A <= u.reg
                    sets == /\ fetch /\ I.op = OP_SETUPVAL
                            /\ I.B + 1 \in DOMAIN CurAct.upvalues
                            /\ UpTarget(cells, CurAct.upvalues[I.B + 1]) = c
                IN /\ ~u.open => ~u2.open
                   /\ u.open => (u2.open <=> ~closes)
                   /\ (u.open /\ ~u2.open) =>
                         u2.value = RegGet(acts[u.act].register, u.reg)
                   /\ (~u.open /\ u2.value # u.value) =>
                         sets /\ u2.value = RegGet(CurAct.register, I.A)
                   /\ (~u.open /\ sets) =>
                         \A a \in DOMAIN acts :
                            acts'[a].register = acts[a].register
                   /\ ~u2.open => UpGetValue(acts', cells', c) = u2.value
      ]_vars

\* A cell closed by CLOSE whose register the live parent has overwritten
\* since with another value.
C4_Witness ==
    \E c \in DOMAIN cells :
       /\ cells[c].deleg = 0 /\ ~cells[c].open
       /\ ~acts[cells[c].act].terminated
       /\ RegGet(acts[cells[c].act].register, cells[c].reg) \notin
             {Nil, cells[c].value}

\* C5: an activation is pushed onto the coroutine's or the debugger's resume
\* stack only in a step in which it executes CALL or TAILCALL.
C5_SuspendOnlyAtCall ==
    [][ ( \/ Len(coResumeStack') > Len(coResumeStack)
          \/ Len(dbgResumeStack') > Len(dbgResumeStack) ) =>
            (IF mode = "run" THEN I ELSE Pending).op \in {OP_CALL, OP_TAILCALL}
      ]_vars

\* C6 as the specification words it: on the resume stack every activation
\* comes after its caller (the outermost first).
C6_CallerFirst ==
    \A i \in 1..(Len(coResumeStack) - 1) :
       acts[coResumeStack[i + 1]].caller = coResumeStack[i]

\* C6, corrected: on the resume stack every activation comes before its
\* caller (the activation whose CALL invoked yield first, the entry function
\* last), and a restart always takes the last one: the outermost restarts
\* first and restarts its callee from its own CALL.
C6_CalleeFirst ==
    /\ [](/\ \A i \in 1..(Len(coResumeStack) - 1) :
                acts[coResumeStack[i]].caller = coResumeStack[i + 1]
          /\ (coStatus = "suspended" /\ coResumeStack # << >>) =>
                coResumeStack[Len(coResumeStack)] = coEntry)
    /\ [][ Len(coResumeStack') < Len(coResumeStack) =>
             /\ coResumeStack' = Front(coResumeStack)
             /\ stack' # << >>
             /\ stack'[Len(stack')].act = coResumeStack[Len(coResumeStack)]
         ]_vars

\* A coroutine suspended through three nested activations.
C6_Witness ==
    /\ coStatus = "suspended" /\ mode = "idle" /\ Len(coResumeStack) = 3

\* C7 as the specification words it: every entry of a captured-locals list
\* has an open cell and a register index below the register file's length.
C7_EntriesInRange ==
    \A a \in DOMAIN acts :
       \A k \in DOMAIN acts[a].localsUsedAsUpvalues :
          LET e == acts[a].localsUsedAsUpvalues[k]
          IN /\ cells[e.upvalue].open
             /\ e.registerIndex < Len(acts[a].register)

\* C7, corrected: every entry of a captured-locals list has an open cell,
\* made for that register of that activation (the register may lie at or
\* past the end of the register file).
C7_EntriesOpen ==
    \A a \in DOMAIN acts :
       \A k \in DOMAIN acts[a].localsUsedAsUpvalues :
          LET e == acts[a].localsUsedAsUpvalues[k]
          IN /\ cells[e.upvalue].open
             /\ cells[e.upvalue].deleg = 0
             /\ cells[e.upvalue].act = a
             /\ cells[e.upvalue].reg = e.registerIndex

\* An entry whose register lies past the end of the register file, after a
\* CALL with C = 0 cut the file below it.
C7_Witness ==
    \E a \in DOMAIN acts :
       /\ acts[a].pc > 0 /\ HasInstr(acts[a], acts[a].pc - 1)
       /\ InstrAt(acts[a], acts[a].pc - 1).op = OP_CALL
       /\ \E k \in DOMAIN acts[a].localsUsedAsUpvalues :
             /\ acts[a].localsUsedAsUpvalues[k].registerIndex
                   >= Len(acts[a].register)
             /\ cells[acts[a].localsUsedAsUpvalues[k].upvalue].open

\* C8: no captured-locals list holds two entries for one register index
\* with distinct cells.
C8_OneCellPerRegister ==
    \A a \in DOMAIN acts :
       \A j, k \in DOMAIN acts[a].localsUsedAsUpvalues :
          LET ls == acts[a].localsUsedAsUpvalues
          IN ls[j].registerIndex = ls[k].registerIndex =>
                ls[j].upvalue = ls[k].upvalue

\* After a CLOSE, the register was captured again by two more closures: the
\* list holds one entry, whose cell (the second made for the register) two
\* function objects share.
C8_Witness ==
    \E a \in DOMAIN acts :
       /\ Len(acts[a].localsUsedAsUpvalues) = 1
       /\ LET c == acts[a].localsUsedAsUpvalues[1].upvalue
          IN /\ cells[c].gen = 1
             /\ Cardinality({f \in DOMAIN funcs :
                    \E i \in DOMAIN funcs[f].ups : funcs[f].ups[i] = c}) = 2

\* C9: for a program whose prototypes are well formed (each ends with
\* RETURN, jumps stay inside, an instruction that may skip is followed by two
\* more), the pc of every activation is within [0, length], and indexes an
\* instruction unless the activation is terminated.
C9_PcInRange ==
    LET WellFormed(p) ==
           LET n == Len(p.instructions)
           IN /\ n > 0 /\ p.instructions[n].op = OP_RETURN
              /\ \A k \in 1..n :
                    LET i == p.instructions[k]
                    IN /\ i.op \in {OP_JMP, OP_FORPREP, OP_FORLOOP} =>
                             (k + i.B >= 0 /\ k + i.B < n)
                       /\ ( \/ i.op \in {OP_EQ, OP_LT, OP_LE, OP_TEST,
                                        OP_TESTSET, OP_TFORLOOP}
                            \/ i.op = OP_LOADBOOL /\ i.C # 0 ) => k + 1 < n
    IN (\A p \in DOMAIN prog.protos : WellFormed(prog.protos[p])) =>
          \A a \in DOMAIN acts :
             /\ acts[a].pc >= 0 /\ acts[a].pc <= Len(Code(acts[a]))
             /\ ~acts[a].terminated => HasInstr(acts[a], acts[a].pc)

\* C10: whenever an error leaves an activation, the error (wrapped first if
\* it is a host error) gets one more frame, naming that activation's source
\* and the line of the instruction it was executing.
C10_FramePerActivation ==
    [][ (mode = "throw" /\ stack # << >> /\ stack' = Front(stack)) =>
          LET base == IF err.lua THEN err.luaStack
                      ELSE << [src |-> 0, line |-> 0] >>
          IN /\ err'.lua
             /\ err'.luaStack =
                   Append(base, [src |-> CurAct.proto, line |-> LineAt(CurAct)])
      ]_vars

\* C11: VARARG (A, B) with B > 0 leaves the surplus arguments, nil-padded, in
\* R[A..A+B-2]; VARARG (A, 0) leaves them in R[A..] and the register file
\* ends right after them, so that a RETURN with B = 0 that follows returns
\* exactly the surplus arguments (activations called with at least paramCount
\* arguments).
C11_VarargExact ==
    [][ ( /\ mode = "run" /\ steps' = steps + 1 /\ I.op = OP_VARARG
          /\ Len(CurAct.params) >= P(CurAct.proto).paramCount ) =>
          LET n == P(CurAct.proto).paramCount
              surplus == SubSeq(CurAct.params, n + 1, Len(CurAct.params))
              r2 == acts'[Cur].register
          IN IF I.B > 0
             THEN \A k \in 0..(I.B - 2) :
                     RegGet(r2, I.A + k) =
                        IF k < Len(surplus) THEN surplus[k + 1] ELSE Nil
             ELSE /\ \A k \in 0..(Len(surplus) - 1) :
                        RegGet(r2, I.A + k) = surplus[k + 1]
                  /\ Len(r2) = I.A + Len(surplus)
                  /\ ReturnVals(r2, I.A, 0) = surplus
      ]_vars

\* C12: an activation of a prototype with is_vararg = 7 starts with the first
\* paramCount arguments (nil where missing) in registers 0..paramCount-1, the
\* table of the surplus arguments, its member n their number, in register
\* paramCount, pc = 0 and the whole argument vector kept in params.
C12_CompatVarargEntry ==
    [][ Len(acts') > Len(acts) =>
          LET a == acts'[Len(acts')]
              n == P(a.proto).paramCount
              surplus == SubSeq(a.params, n + 1, Len(a.params))
          IN P(a.proto).is_vararg = 7 =>
                /\ \A k \in 0..(n - 1) :
                      RegGet(a.register, k) =
                         IF k < Len(a.params) THEN a.params[k + 1] ELSE Nil
                /\ RegGet(a.register, n).t = "tab"
                /\ tabs'[RegGet(a.register, n).v].arr = surplus
                /\ tabs'[RegGet(a.register, n).v].n = Num(Len(surplus))
                /\ a.pc = 0
                /\ Len(acts) = 0 => a.params = args
      ]_vars

\* C13: a step that executes TAILCALL (A, B) is the step CALL (A, B, 0) would
\* make in the same state (the same callee applied to the same arguments, the
\* same error for a non-callable R[A], the same restart of a suspended
\* activation), and what follows the callee's return is what follows it in
\* CALL (A, B, 0).
C13_TailcallAsCall ==
    [][ /\ ( mode = "run" /\ steps' = steps + 1 /\ I.op = OP_TAILCALL ) =>
              CallBody(I.A, I.B, 0)
        /\ ( /\ mode = "ret" /\ stack # << >>
             /\ HasInstr(CurAct, CurAct.pc - 1) /\ Pending.op = OP_TAILCALL ) =>
              CallFinish(acts, Pending.A, 0, retv, coStatus, coYieldVars,
                         dbgStatus)
      ]_vars

\* C14: the numeric for loop of NumericFor over integers init, limit, step
\* with step # 0 runs its body max (0, floor ((limit - init) / step) + 1)
\* times, the loop variable R[A+3] being init + k * step in the k-th run
\* (counted from 0) and never past limit, and then ends, returning the sum of
\* these values ([6] for 1, 3, 1); the run always ends.
C14_NumericFor ==
    LET init == args[1].v
        limit == args[2].v
        step == args[3].v
        Loop == /\ prog.protos = << NumericFor >>
                /\ \A i \in 1..3 : args[i].t = "num"
                /\ step # 0
        N == IF step > 0
             THEN IF limit >= init THEN ((limit - init) \div step) + 1 ELSE 0
             ELSE IF init >= limit THEN ((init - limit) \div (0 - step)) + 1
                  ELSE 0
        done == Cardinality({k \in DOMAIN trace : trace[k] = << 1, 5 >>})
    IN /\ [](Loop =>
               /\ done <= N
               /\ steps <= 7 + 2 * N
               /\ (mode = "run" /\ CurAct.pc = 5) =>
                     /\ RegGet(CurAct.register, 6) = Num(init + done * step)
                     /\ IF step > 0 THEN init + done * step <= limit
                        ELSE init + done * step >= limit
               /\ Finished =>
                     /\ done = N
                     /\ result.kind = "values"
                     /\ result.ret.vals =
                           << Num(N * init + step * ((N * (N - 1)) \div 2)) >>
                     /\ args = << Num(1), Num(3), Num(1) >> =>
                           result.ret.vals = << Num(6) >>)
       /\ (Loop ~> Finished)

\* The loop from 5 down to 0 by -2 ran three times (5, 3, 1) and returned 9.
C14_Witness ==
    /\ Finished /\ prog.protos = << NumericFor >>
    /\ args = << Num(5), Num(0), Num(0 - 2) >>
    /\ Cardinality({k \in DOMAIN trace : trace[k] = << 1, 5 >>}) = 3
    /\ result.ret.vals = << Num(9) >>

\* C15: a step that executes CLOSURE (A, Bx) moves pc past exactly as many
\* pseudo-instructions as the nested prototype Bx has upvalues, gives the new
\* function exactly that many upvalue cells and adds at most that many entries
\* to the captured-locals list.
C15_PseudoCount ==
    [][ ( /\ mode = "run" /\ steps' = steps + 1 /\ I.op = OP_CLOSURE
          /\ mode' = "run" ) =>
          LET k == P(P(CurAct.proto).functions[I.B + 1]).upvalues
          IN /\ acts'[Cur].pc = CurAct.pc + 1 + k
             /\ Len(funcs') = Len(funcs) + 1
             /\ Len(funcs'[Len(funcs')].ups) = k
             /\ Len(acts'[Cur].localsUsedAsUpvalues)
                   <= Len(CurAct.localsUsedAsUpvalues) + k
      ]_vars

\* C16: a step after which the running coroutine's status is 'suspending' (an
\* instruction whose callee yielded, or whose callee suspended) appends the
\* executing activation to the resume stack and ends its _run, its terminated
\* flag false; a CALL splices nothing into its registers; the entry activation
\* returns the yield vector, the status becomes 'suspended' and the coroutine
\* is no longer running, any other returns undefined and leaves the status.
C16_SuspendStep ==
    [][ ( /\ coRunning /\ stack # << >> /\ mode \in {"run", "ret"}
          /\ mode' # "throw" /\ Len(stack') <= Len(stack)
          /\ \/ coStatus' = "suspending"
             \/ coStatus' = "suspended" /\ coStatus # "suspended" ) =>
          /\ coResumeStack' = Append(coResumeStack, Cur)
          /\ stack' = Front(stack) /\ mode' = "ret"
          /\ ~acts'[Cur].terminated
          /\ (IF mode = "run" THEN I ELSE Pending).op \in {OP_CALL, OP_TAILCALL}
                => acts'[Cur].register = acts[Cur].register
          /\ IF Cur = coEntry
             THEN /\ retv' = Arr(coYieldVars')
                  /\ coStatus' = "suspended" /\ ~coRunning'
             ELSE /\ retv' = Undef
                  /\ coStatus' = "suspending" /\ coRunning'
      ]_vars

\* An activation that is not the coroutine's entry has just suspended at a
\* CALL with C = 0 whose callee yielded (7, 8): it is on the resume stack, not
\* terminated, its registers as they were when it made the call.
C16_Witness ==
    /\ mode = "ret" /\ stack # << >> /\ coRunning /\ coStatus = "suspending"
    /\ retv = Undef /\ coYieldVars = << Num(7), Num(8) >>
    /\ Len(coResumeStack) = 1
    /\ LET a == acts[coResumeStack[1]]
       IN /\ ~a.terminated /\ coResumeStack[1] # coEntry
          /\ InstrAt(a, a.pc - 1).op = OP_CALL /\ InstrAt(a, a.pc - 1).C = 0
          /\ RegGet(a.register, InstrAt(a, a.pc - 1).A) = HYield
          /\ Len(a.register) = 5

\* C17 as the specification words it: the activation that is restarted with
\* the resume stack empty (the one the yield vector is for) has its pc
\* decremented, its registers untouched until its CALL is executed again.
C17_YieldVectorRewinds ==
    [][ ( Len(coResumeStack') < Len(coResumeStack) /\ coResumeStack' = << >> ) =>
          LET id == coResumeStack[Len(coResumeStack)]
          IN /\ acts'[id].pc = acts[id].pc - 1
             /\ acts'[id].register = acts[id].register
      ]_vars

\* C17, corrected: the activation restarted with the resume stack empty keeps
\* its pc (the instruction after the paused CALL is the next one fetched):
\* the head of its _run splices the yield vector at R[A] with the operands A
\* and C of the instruction at pc - 1 and sets the status to 'running'.  An
\* activation restarted while the resume stack is not empty has its pc
\* decremented and its registers untouched, the status staying 'resuming': its
\* CALL is executed again and restarts the next activation.
C17_YieldVectorSpliced ==
    [][ Len(coResumeStack') < Len(coResumeStack) =>
          LET id == coResumeStack[Len(coResumeStack)]
              a == acts[id]
          IN /\ coResumeStack' = Front(coResumeStack)
             /\ stack'[Len(stack')].act = id
             /\ IF coResumeStack' = << >>
                THEN /\ acts'[id].pc = a.pc
                     /\ HasInstr(a, a.pc - 1) =>
                           /\ acts'[id].register =
                                 RunSplice(a.register, InstrAt(a, a.pc - 1).A,
                                           InstrAt(a, a.pc - 1).C, coYieldVars')
                           /\ coStatus' = "running" /\ mode' = "run"
                ELSE /\ acts'[id].pc = a.pc - 1
                     /\ acts'[id].register = a.register
                     /\ coStatus' = "resuming" /\ mode' = "run"
      ]_vars

\* The innermost of three suspended activations has just been restarted by
\* the re-executed CALL of its caller: the status is 'running' again, its pc is
\* still past its CALL with C = 0, and the resume values (9, 5) are in R[1..2],
\* the register file ending after them.
C17_Witness ==
    /\ mode = "run" /\ coRunning /\ coStatus = "running" /\ resumes = 1
    /\ Len(stack) = 3 /\ coResumeStack = << >>
    /\ HasInstr(CurAct, CurAct.pc - 1)
    /\ Pending.op = OP_CALL /\ Pending.C = 0
    /\ CurAct.register = << HYield, Num(9), Num(5) >>
    /\ trace[Len(trace)] = << Cur, CurAct.pc - 1 >>

C19_LuaTruthiness ==
    [][ LET Truthy(v) == v # Nil /\ v # Bool(FALSE)
            fetch == mode = "run" /\ steps' = steps + 1
            r == CurAct.register
            r2 == acts'[Cur].register
        IN /\ (fetch /\ I.op = OP_NOT) =>
                 RegGet(r2, I.A) = Bool(~Truthy(RegGet(r, I.B)))
           /\ (fetch /\ I.op = OP_TESTSET) =>
                 IF Truthy(RegGet(r, I.B)) = (I.C # 0)
                 THEN /\ RegGet(r2, I.A) = RegGet(r, I.B)
                      /\ acts'[Cur].pc = CurAct.pc + 1
                 ELSE /\ RegGet(r2, I.A) = RegGet(r, I.A)
                      /\ acts'[Cur].pc = CurAct.pc + 2
      ]_vars

\* C20: a step that executes CLOSE (A) closes the cell of every entry of the
\* captured-locals list with register index >= A on the value the register
\* holds, removes the entry and empties the register slot; the entries with
\* register index < A stay, in their order, their cells open and their
\* registers as they were; no other cell and no other register changes.
C20_CloseExact ==
    [][ ( mode = "run" /\ steps' = steps + 1 /\ I.op = OP_CLOSE ) =>
          LET ls == CurAct.localsUsedAsUpvalues
              r == CurAct.register
              r2 == acts'[Cur].register
              Stays(e) == e.registerIndex < I.A
              Closed(c) == \E j \in DOMAIN ls :
                              ls[j].upvalue = c /\ ~Stays(ls[j])
          IN /\ acts'[Cur].localsUsedAsUpvalues = SelectSeq(ls, Stays)
             /\ \A j \in DOMAIN ls :
                   IF Stays(ls[j])
                   THEN /\ cells'[ls[j].upvalue].open
                        /\ RegGet(r2, ls[j].registerIndex)
                              = RegGet(r, ls[j].registerIndex)
                   ELSE /\ ~cells'[ls[j].upvalue].open
                        /\ cells'[ls[j].upvalue].value
                              = RegGet(r, ls[j].registerIndex)
                        /\ RegGet(r2, ls[j].registerIndex) = Nil
             /\ \A c \in DOMAIN cells : ~Closed(c) => cells'[c] = cells[c]
             /\ \A i \in 0..Max(Len(r), Len(r2)) :
                   (\A j \in DOMAIN ls : ls[j].registerIndex = i => Stays(ls[j]))
                      => RegGet(r2, i) = RegGet(r, i)
      ]_vars

\* CLOSE 2 has just run on a list that held the entries for the registers
\* 3, 1 and 2 in that order: the entry for register 1 is the only one left,
\* its cell open, and the cells of the registers 3 and 2 are closed on 3 and 2.
C20_Witness ==
    /\ mode = "run" /\ HasInstr(CurAct, CurAct.pc - 1)
    /\ Pending.op = OP_CLOSE /\ Pending.A = 2
    /\ Len(CurAct.localsUsedAsUpvalues) = 1
    /\ CurAct.localsUsedAsUpvalues[1].registerIndex = 1
    /\ cells[CurAct.localsUsedAsUpvalues[1].upvalue].open
    /\ Len(cells) = 3
    /\ cells[1].reg = 3 /\ ~cells[1].open /\ cells[1].value = Num(3)
    /\ cells[3].reg = 2 /\ ~cells[3].open /\ cells[3].value = Num(2)
    /\ RegGet(CurAct.register, 1) = Num(1)
    /\ RegGet(CurAct.register, 2) = Nil /\ RegGet(CurAct.register, 3) = Nil

\* C21: the callee of a CALL is applied once for each execution of the CALL
\* outside a resume (the ones the history trace records) and never by an
\* execution during a resume: a CALL executed while the status is 'resuming'
\* creates no activation, invokes no host callable and restarts the activation
\* on top of the resume stack; the activation restarted last, the one whose
\* CALL invoked yield, keeps its pc and so does not execute that CALL again;
\* an activation whose only applying instruction is CALL has made no more
\* activations than it has executed CALLs outside a resume.
C21_AppliedOnce ==
    /\ [](\A c \in DOMAIN acts :
             (\A k \in DOMAIN Code(acts[c]) :
                 Code(acts[c])[k].op \notin
                    {OP_TAILCALL, OP_TFORLOOP, OP_ADD, OP_EQ, OP_LT, OP_LE}) =>
                Cardinality({a \in DOMAIN acts : acts[a].caller = c}) <=
                   Cardinality({k \in DOMAIN trace :
                       /\ trace[k][1] = c
                       /\ InstrAt(acts[c], trace[k][2]).op = OP_CALL}))
    /\ [][ /\ ( /\ mode = "run" /\ steps' = steps + 1 /\ I.op = OP_CALL
                /\ coRunning /\ coStatus = "resuming"
                /\ coResumeStack # << >> ) =>
                 /\ Len(acts') = Len(acts) /\ trace' = trace
                 /\ coYieldVars' = coYieldVars
                 /\ coResumeStack' = Front(coResumeStack)
                 /\ stack' = Append(stack,
                                [act |-> coResumeStack[Len(coResumeStack)],
                                 exec |-> FALSE])
           /\ ( mode = "run" /\ steps' = steps + 1 /\ I.op = OP_CALL
                /\ ~Resuming ) =>
                 /\ trace' = Append(trace, << Cur, CurAct.pc >>)
                 /\ RegGet(CurAct.register, I.A).t = "fn" =>
                       /\ Len(acts') = Len(acts) + 1
                       /\ acts'[Len(acts')].caller = Cur
           /\ ( Len(coResumeStack') < Len(coResumeStack)
                /\ coResumeStack' = << >> ) =>
                 acts'[coResumeStack[Len(coResumeStack)]].pc
                    = acts[coResumeStack[Len(coResumeStack)]].pc
         ]_vars

\* A function that yields twice, called through a wrapper, was resumed twice
\* and returned: the wrapper's CALL (pc 3) was executed three times, once
\* outside a resume, and its callee exists once.
C21_Witness ==
    /\ Finished /\ ref.set /\ resumes = 2 /\ result.kind = "values"
    /\ prog.protos = << Wrapper(0, 2), TwiceYielder >>
    /\ Len(acts) = 2 /\ acts[2].caller = 1
    /\ Cardinality({k \in DOMAIN trace : trace[k] = << 1, 3 >>}) = 1
    /\ Cardinality({k \in DOMAIN trace : trace[k][1] = 2
                       /\ InstrAt(acts[2], trace[k][2]).op = OP_CALL}) = 2

\* C22: a step that executes VARARG (A, B) leaves every register below A as
\* it was, whatever the number of arguments the activation was called with.
C22_VarargKeepsBelow ==
    [][ ( mode = "run" /\ steps' = steps + 1 /\ I.op = OP_VARARG ) =>
          \A i \in 0..(I.A - 1) :
             RegGet(acts'[Cur].register, i) = RegGet(CurAct.register, i)
      ]_vars

\* C23: while the coroutine's status is 'resuming' the only instructions
\* executed are CALLs, each of which takes exactly one activation off the
\* resume stack; the status is 'running' again as soon as the stack is empty,
\* and whenever the coroutine runs with the status 'running' no activation is
\* left on the resume stack.
C23_ResumeOnlyRewoundCalls ==
    /\ []((coRunning /\ coStatus = "running") => coResumeStack = << >>)
    /\ [][ ( /\ mode = "run" /\ steps' = steps + 1
             /\ coRunning /\ coStatus = "resuming" ) =>
              /\ I.op = OP_CALL
              /\ coResumeStack # << >>
              /\ coResumeStack' = Front(coResumeStack)
              /\ stack'[Len(stack')].act = coResumeStack[Len(coResumeStack)]
              /\ coStatus' = IF coResumeStack' = << >> THEN "running"
                             ELSE "resuming"
         ]_vars
==========================================================================
